---- MODULE Spec2Model ----
(***************************************************************************)
(* Model of the opportunity form aggregate (models/opportunity/form.py),   *)
(* of the stored responses (models/opportunity/response.py) and of the     *)
(* files an answer may refer to (models/file.py).                          *)
(*                                                                         *)
(* Encoding of Python values:                                              *)
(*   None            the empty tuple <<>>                                  *)
(*   Optional[x]     <<>> or the one-element tuple <<x>>                   *)
(*   dict            a sequence of [key, val] records with distinct keys,  *)
(*                   in insertion order                                    *)
(*   an answer       <<>> (None), <<s>> (a scalar s, a file id) or         *)
(*                   <<country_id, subscriber_number>> (a phone input)     *)
(***************************************************************************)
EXTENDS Integers, Sequences, FiniteSets, TLC

VARIABLES
    opportunity_form,           \* collection 'opportunity_form': a set of documents
    opportunity_form_response,  \* collection 'opportunity_form_response', in insertion order
    validated_with,             \* history: per stored response, the schema parts it was validated against
    file,                       \* collection 'file': a set of documents
    writers,                    \* per caller of OpportunityForm.update: the instance it loaded and its request
    submitters,                 \* per caller of OpportunityFormResponse.create: the schema instance it loaded
    user_info,                  \* the UserInfo instances, one per user that has a profile
    api_key,                    \* collections 'personal_api_key' and 'developer_api_key': a set of documents
    utc_now,                    \* the clock: datetime.now(UTC)
    call,                       \* the last call and its arguments
    ret                         \* what the last call returned or raised

vars == <<opportunity_form, opportunity_form_response, validated_with, file, writers, submitters,
          user_info, api_key, utc_now, call, ret>>

----------------------------------------------------------------------------
(* Bounds *)

\* the clock runs from 1 to MaxTime
MaxTime == 4

MaxVersion == 3
MaxResponses == 2

----------------------------------------------------------------------------
(* Python values *)

None == <<>>

Some(x) == <<x>>

\* dict helpers
dict_keys(d) == {d[i].key : i \in DOMAIN d}

dict_has(d, k) == \E i \in DOMAIN d : d[i].key = k

dict_get(d, k) == d[CHOOSE i \in DOMAIN d : d[i].key = k].val

\* d[key] = val : replaces the value in place, or appends a new key
dict_set(d, k, v) ==
    IF dict_has(d, k)
    THEN [i \in DOMAIN d |-> IF d[i].key = k THEN [key |-> k, val |-> v] ELSE d[i]]
    ELSE Append(d, [key |-> k, val |-> v])

Error(error_code, context) == [error_code |-> error_code, context |-> context]

----------------------------------------------------------------------------
(* Reference data and inputs *)

Opportunities == {"o1"}

Users == {"u1"}

\* callers of OpportunityForm.update that may run at the same time
Writers == {"w1", "w2"}

\* callers of OpportunityFormResponse.create that may run at the same time
Submitters == {"s1", "s2"}

\* values of datetime.now(UTC)
Clock == {1, 2}

Language == {"en", "ru"}

\* collection 'country'
country == {"c1", "c2"}

Label == [en |-> Some("Name"), ru |-> None]

ChoiceLabel == [en |-> Some("X"), ru |-> None, fallback_language |-> "en"]

FieldModel(type, is_required, whitelist, choices) ==
    [type |-> type, label |-> Label, is_required |-> is_required,
     max_length |-> None, max_size_bytes |-> None, fill |-> None,
     whitelist |-> whitelist, choices |-> choices,
     regex |-> None, min |-> None, max |-> None, male |-> None, female |-> None,
     checked_by_default |-> None]

StringRequired == FieldModel("string", TRUE, None, <<>>)

ChoiceOptional == FieldModel("choice", FALSE, None, <<[key |-> "x", val |-> ChoiceLabel]>>)

PhoneUnknownCountry == FieldModel("phone_number", FALSE, Some(<<"c1", "c9">>), <<>>)

PhoneWhitelisted == FieldModel("phone_number", FALSE, Some(<<"c1">>), <<>>)

ChoiceRequired == FieldModel("choice", TRUE, None, <<[key |-> "x", val |-> ChoiceLabel]>>)

PhoneAnyCountry == FieldModel("phone_number", FALSE, None, <<>>)

\* a file field with a size limit of 2 bytes, and one without a limit
FileLimited == [FieldModel("file", FALSE, None, <<>>) EXCEPT !.max_size_bytes = Some(2)]

FileUnlimited == FieldModel("file", FALSE, None, <<>>)

\* one unknown id at position 1 of three
PhoneOneOfThreeUnknown == FieldModel("phone_number", FALSE, Some(<<"c1", "c9", "c2">>), <<>>)

\* unknown ids at positions 0 and 2
PhoneTwoOfThreeUnknown == FieldModel("phone_number", FALSE, Some(<<"c9", "c1", "c8">>), <<>>)

Item(k, v) == [key |-> k, val |-> v]

\* field maps a request may carry
FieldsInputs ==
    { <<>>,
      <<Item("a", StringRequired)>>,
      <<Item("a", StringRequired), Item("b", ChoiceOptional)>>,
      <<Item("b", PhoneWhitelisted)>>,
      <<Item("a", StringRequired), Item("b", PhoneUnknownCountry)>> }

\* field maps with whitelists, for the definition-time errors
WhitelistFieldsInputs ==
    { <<Item("a", StringRequired)>>,
      <<Item("a", PhoneWhitelisted)>>,
      <<Item("a", StringRequired), Item("b", PhoneWhitelisted)>>,
      <<Item("a", PhoneOneOfThreeUnknown)>>,
      <<Item("a", PhoneOneOfThreeUnknown), Item("b", PhoneWhitelisted)>>,
      <<Item("a", PhoneTwoOfThreeUnknown), Item("b", PhoneOneOfThreeUnknown)>>,
      <<Item("a", StringRequired), Item("b", PhoneUnknownCountry)>> }

\* field maps whose answers can fail, for the submission-time errors
AnswerFieldsInputs ==
    { <<Item("a", ChoiceOptional), Item("b", PhoneWhitelisted)>>,
      <<Item("a", ChoiceRequired), Item("b", PhoneAnyCountry)>>,
      <<Item("a", ChoiceRequired)>> }

\* answers to those field maps: c1 and c2 exist, c9 does not; x is a choice key
AnswerDataInputs ==
    { <<Item("a", <<"x">>)>>,
      <<Item("a", <<"y">>)>>,
      <<Item("a", None)>>,
      <<Item("b", <<"c1", "555">>)>>,
      <<Item("b", <<"c2", "555">>)>>,
      <<Item("b", <<"c9", "555">>)>>,
      <<Item("a", <<"y">>), Item("b", <<"c9", "555">>)>>,
      <<Item("b", <<"c2", "555">>), Item("a", <<"y">>)>>,
      <<Item("a", <<"x">>), Item("b", <<"c2", "555">>)>>,
      <<Item("a", <<"y">>), Item("b", <<"c1", "555">>)>> }

\* ids a new file document may get
FileIds == {"f1"}

\* sizes below, at and above the limit of FileLimited
FileSizes == {1, 2, 3}

\* owners of a file: nobody (the default of File.create), the submitting user, another user
FileOwners == {None, Some("u1"), Some("u2")}

FileFieldsInputs ==
    { <<Item("f", FileLimited)>>,
      <<Item("f", FileUnlimited)>> }

\* answers to a file field: a stored id, an id of no file, no answer
FileDataInputs ==
    { <<Item("f", <<"f1">>)>>,
      <<Item("f", <<"f9">>)>>,
      <<Item("f", None)>> }

YandexForms == [type |-> "yandex_forms", url |-> "https://forms.yandex.ru/u/1"]

\* answers a submission may carry
DataInputs ==
    { <<>>,
      <<Item("a", <<"x">>)>>,
      <<Item("b", <<"x">>)>>,
      <<Item("b", <<"y">>)>>,
      <<Item("b", None)>>,
      <<Item("a", <<"x">>), Item("b", <<"y">>)>>,
      <<Item("b", <<"c1", "555">>)>> }

\* raw requests: `set` is what the caller supplied (pydantic's model_fields_set);
\* attributes that were not supplied hold their defaults
RawRequest(set, bump_version, submit_method, fields) ==
    [model_fields_set |-> set, bump_version |-> bump_version,
     submit_method |-> submit_method, fields |-> fields]

CreateRequests ==
    { RawRequest({"fields"} \cup s, TRUE, sm, Some(f)) :
        s \in {{}}, sm \in {None}, f \in FieldsInputs }
    \cup
    { RawRequest({"fields", "submit_method"}, TRUE, Some(YandexForms), Some(f)) :
        f \in FieldsInputs }

UpdateRequests ==
    { RawRequest(b.set \cup s.set \cup f.set, b.val, s.val, f.val) :
        b \in {[set |-> {}, val |-> TRUE],
               [set |-> {"bump_version"}, val |-> TRUE],
               [set |-> {"bump_version"}, val |-> FALSE]},
        s \in {[set |-> {}, val |-> None],
               [set |-> {"submit_method"}, val |-> None],
               [set |-> {"submit_method"}, val |-> Some(YandexForms)]},
        f \in {[set |-> {}, val |-> None], [set |-> {"fields"}, val |-> None]}
              \cup {[set |-> {"fields"}, val |-> Some(d)] : d \in FieldsInputs} }

FileCreateRequests ==
    { RawRequest({"fields"}, TRUE, None, Some(f)) : f \in FileFieldsInputs }

AnswerCreateRequests ==
    { RawRequest({"fields"}, TRUE, None, Some(f)) : f \in AnswerFieldsInputs }

\* the schema two callers race on, and their update requests
RaceCreateRequests ==
    { RawRequest({"fields"}, TRUE, None,
                 Some(<<Item("a", StringRequired), Item("b", ChoiceOptional)>>)),
      RawRequest({"fields", "submit_method"}, TRUE, Some(YandexForms),
                 Some(<<Item("a", StringRequired)>>)) }

RaceUpdateRequests ==
    { RawRequest({"bump_version", "fields"}, TRUE, None, Some(<<Item("a", StringRequired)>>)),
      RawRequest({"bump_version", "fields"}, TRUE, None, Some(<<Item("b", PhoneWhitelisted)>>)),
      RawRequest({"bump_version", "submit_method"}, TRUE, None, None),
      RawRequest({"bump_version", "fields"}, TRUE, None,
                 Some(<<Item("a", StringRequired), Item("b", PhoneUnknownCountry)>>)),
      RawRequest({"fields"}, TRUE, None, Some(<<Item("b", PhoneWhitelisted)>>)) }

\* requests and answers for stored submissions that see later updates
StoredCreateRequests ==
    { RawRequest({"fields"}, TRUE, None, Some(<<Item("a", ChoiceOptional)>>)) }

StoredUpdateRequests ==
    { RawRequest({"bump_version", "fields"}, TRUE, None, Some(<<Item("a", ChoiceRequired)>>)),
      RawRequest({"bump_version", "submit_method"}, TRUE, Some(YandexForms), None) }

StoredDataInputs ==
    { <<Item("a", <<"x">>)>>,
      <<Item("a", <<"y">>)>> }

WhitelistCreateRequests ==
    { RawRequest({"fields"}, TRUE, None, Some(f)) : f \in WhitelistFieldsInputs }

WhitelistUpdateRequests ==
    { RawRequest({"fields"} \cup b, TRUE, None, Some(f)) :
        b \in {{}, {"bump_version"}}, f \in WhitelistFieldsInputs }
    \cup { RawRequest({"submit_method"}, TRUE, Some(YandexForms), None) }

\* one definition per field kind
RegexKind == [FieldModel("regex", FALSE, None, <<>>) EXCEPT !.regex = Some("[a-z]+")]

TextKind == [FieldModel("text", FALSE, None, <<>>) EXCEPT !.max_length = Some(100)]

EmailKind == FieldModel("email", TRUE, None, <<>>)

GenderKind == [FieldModel("gender", FALSE, None, <<>>)
                 EXCEPT !.male = Some("m"), !.female = Some("f")]

CheckBoxKind == [FieldModel("checkbox", FALSE, None, <<>>)
                   EXCEPT !.checked_by_default = Some(TRUE)]

IntegerAdult == [FieldModel("integer", TRUE, None, <<>>) EXCEPT !.min = Some(18)]

DateBirthday == [FieldModel("date", FALSE, None, <<>>) EXCEPT !.fill = Some("BIRTHDAY")]

KindInputs ==
    { StringRequired, RegexKind, TextKind, EmailKind, PhoneAnyCountry, ChoiceOptional,
      GenderKind, FileUnlimited, CheckBoxKind, IntegerAdult, DateBirthday }

\* `fields` mappings of one field of each kind, and of several fields in two orders
RenderFieldsInputs ==
    { <<Item("a", model)>> : model \in KindInputs }
    \cup { <<Item("a", StringRequired), Item("b", IntegerAdult)>>,
           <<Item("b", IntegerAdult), Item("a", StringRequired)>>,
           <<Item("c", DateBirthday), Item("a", TextKind), Item("b", EmailKind)>>,
           <<Item("b", CheckBoxKind), Item("c", ChoiceOptional)>> }

RenderCreateRequests ==
    { RawRequest({"fields"}, TRUE, None, Some(f)) : f \in RenderFieldsInputs }

RenderUpdateRequests ==
    { RawRequest({"bump_version", "fields"}, FALSE, None, Some(f)) : f \in RenderFieldsInputs }
    \cup { RawRequest({"submit_method"}, TRUE, Some(YandexForms), None) }

StringShort == [FieldModel("string", TRUE, None, <<>>) EXCEPT !.max_length = Some(1)]

\* values of IntegerFieldModel.min and .max
IntegerBounds == {None, Some(17), Some(18), Some(19)}

IntegerModels ==
    { [FieldModel("integer", TRUE, None, <<>>) EXCEPT !.min = lo, !.max = hi] :
        lo \in IntegerBounds, hi \in IntegerBounds }

\* the kinds without a submission check of their own, gender apart
UncheckedKinds ==
    { StringShort, RegexKind, TextKind, EmailKind, CheckBoxKind, DateBirthday }

IntegerCreateRequests ==
    { RawRequest({"fields"}, TRUE, None, Some(<<Item("n", model)>>)) : model \in IntegerModels }

IntegerUpdateRequests ==
    { RawRequest({"fields"} \cup b, TRUE, None, Some(<<Item("n", model)>>)) :
        b \in {{}, {"bump_version"}}, model \in IntegerModels }

\* text fields are keyed "a", integer fields "n"
UncheckedFieldsInputs ==
    { <<Item("a", model)>> : model \in UncheckedKinds }
    \cup { <<Item("n", IntegerAdult)>> }

UncheckedCreateRequests ==
    { RawRequest({"fields"}, TRUE, None, Some(f)) : f \in UncheckedFieldsInputs }

TextDataInputs ==
    { <<Item("a", <<"xy">>)>>,
      <<Item("a", None)>> }

NumberDataInputs ==
    { <<Item("n", <<17>>)>>,
      <<Item("n", <<19>>)>> }

\* values of a language slot of a label request
LabelSlots == {None, Some("Male"), Some("Name"), Some("X"), Some("Y")}

\* requests for trans_string.TransStringModel: the fallback language is optional
TransStringInputs ==
    [en : LabelSlots, ru : LabelSlots, fallback_language : {None, Some("en"), Some("ru")}]

\* requests for trans_string.embedded.TransStringModel
EmbeddedTransStringInputs == [en : LabelSlots, ru : LabelSlots]

\* requests for trans_string.embedded.ContainedTransStringModel
ContainedTransStringInputs == [en : LabelSlots, ru : LabelSlots, fallback_language : Language]

\* values of datetime.date
Dates == {"2000-01-31", "2001-02-28"}

\* the class datetime.date itself, as a value
DateClass == "<class 'datetime.date'>"

\* UserInfo.UpdateModel: a field that the request does not carry has its default
UpdateModels ==
    { [model_fields_set |-> s,
       name |-> IF "name" \in s THEN name ELSE None,
       surname |-> IF "surname" \in s THEN surname ELSE None,
       birthday |-> IF "birthday" \in s THEN birthday ELSE None] :
        s \in SUBSET {"name", "surname", "birthday"},
        name \in {None, Some("Ann"), Some("Bob")},
        surname \in {None, Some("Lee")},
        birthday \in {None} \cup {Some(d) : d \in Dates} }

\* User instances handed to PersonalAPIKey.generate: a saved one, and one that
\* was never saved and has no id
KeyUsers == { [id |-> Some("u1"), username |-> "u1"], [id |-> None, username |-> "u2"] }

IPv4Addresses == {"10.0.0.1", "10.0.0.2"}

\* values of `expiry`
Expiries == {2, 4}

Prefixes == {"usr", "dev"}

\* values of allowed_categories, as sets
AllowedCategories == { {}, {"PERSONAL"}, {"DEVELOPER"} }

----------------------------------------------------------------------------
(* Localized strings *)

\* pydantic.model_validator takes `mode` as a keyword only; applied bare to the
\* function it decorates, the call raises TypeError while the class body runs
model_validator(mode) == IF mode = None THEN "TypeError" ELSE ""

Validated(kind, code) == [kind |-> kind, code |-> code]

\* trans_string.TransStringModel: check_non_empty, then check_valid_fallback
TransStringModel(raw) ==
    IF model_validator(Some("after")) # ""
    THEN Validated("raise", model_validator(Some("after")))
    ELSE IF raw.en = None /\ raw.ru = None
    THEN Validated("validation_error", "empty-trans-string")
    ELSE IF raw.fallback_language # None
            /\ (IF raw.fallback_language[1] = "en" THEN raw.en ELSE raw.ru) = None
    THEN Validated("validation_error", "missing-fallback-trans")
    ELSE Validated("ok", "")

embedded_TransStringModel_validate_model(self) ==
    IF self.en = None /\ self.ru = None THEN "empty_trans_string" ELSE ""

\* trans_string.embedded.TransStringModel
embedded_TransStringModel(raw) ==
    IF model_validator(None) # ""
    THEN Validated("raise", model_validator(None))
    ELSE IF embedded_TransStringModel_validate_model(raw) # ""
    THEN Validated("validation_error", embedded_TransStringModel_validate_model(raw))
    ELSE Validated("ok", "")

embedded_ContainedTransStringModel_validate_model(self) ==
    IF embedded_TransStringModel_validate_model(self) # ""
    THEN embedded_TransStringModel_validate_model(self)
    ELSE IF (IF self.fallback_language = "en" THEN self.en ELSE self.ru) = None
    THEN "missing_fallback_translation"
    ELSE ""

\* trans_string.embedded.ContainedTransStringModel, a subclass of the former
embedded_ContainedTransStringModel(raw) ==
    IF model_validator(None) # ""
    THEN Validated("raise", model_validator(None))
    ELSE IF embedded_ContainedTransStringModel_validate_model(raw) # ""
    THEN Validated("validation_error", embedded_ContainedTransStringModel_validate_model(raw))
    ELSE Validated("ok", "")

TransString_create_from_model(model) == [en |-> model.en, ru |-> model.ru]

\* getattr(self, language.value, None)
TransString_get_translation(self, language) ==
    CASE language = "en" -> self.en
      [] language = "ru" -> self.ru

ContainedTransString_create_from_model(model) ==
    [fallback_language |-> model.fallback_language, en |-> model.en, ru |-> model.ru]

----------------------------------------------------------------------------
(* Field factory *)

FormField(type, label, is_required) ==
    [type |-> type, label |-> label, is_required |-> is_required,
     max_length |-> None, max_size_bytes |-> None, fill |-> None,
     whitelist |-> <<>>, choices |-> <<>>,
     regex |-> None, min |-> None, max |-> None, male |-> None, female |-> None,
     checked_by_default |-> None]

StringFieldModel_to_field(self, id) ==
    [FormField("string", TransString_create_from_model(self.label), self.is_required)
        EXCEPT !.max_length = self.max_length, !.fill = self.fill]

RECURSIVE whitelist_loop(_, _, _, _, _)
whitelist_loop(whitelist, index, id, countries, errors) ==
    IF index >= Len(whitelist)
    THEN [countries |-> countries, errors |-> errors]
    ELSE LET country_id == whitelist[index + 1] IN
         IF country_id \notin country
         THEN whitelist_loop(whitelist, index + 1, id, countries,
                  Append(errors, Error("PHONE_NUMBER_INVALID_COUNTRY_ID", <<id, index>>)))
         ELSE IF Len(errors) = 0
         THEN whitelist_loop(whitelist, index + 1, id, Append(countries, country_id), errors)
         ELSE whitelist_loop(whitelist, index + 1, id, countries, errors)

\* PhoneNumberFieldModel_to_field returning at the first unknown country
PhoneNumberFieldModel_to_field_first_error(self, id) ==
    LET field == FormField("phone_number", TransString_create_from_model(self.label),
                           self.is_required) IN
    IF self.whitelist = None
    THEN [field |-> field, errors |-> <<>>, raise |-> ""]
    ELSE LET r == whitelist_loop(self.whitelist[1], 0, id, <<>>, <<>>) IN
         IF Len(r.errors) # 0
         THEN [field |-> field, errors |-> <<r.errors[1]>>, raise |-> ""]
         ELSE [field |-> [field EXCEPT !.whitelist = r.countries], errors |-> <<>>, raise |-> ""]

\* returns [field, errors, raise]; errors non-empty stands for the returned error list,
\* raise non-empty for an exception leaving the call
PhoneNumberFieldModel_to_field(self, id) ==
    LET field == FormField("phone_number", TransString_create_from_model(self.label),
                           self.is_required) IN
    IF self.whitelist = None
    THEN [field |-> field, errors |-> <<>>, raise |-> ""]
    ELSE LET r == whitelist_loop(self.whitelist[1], 0, id, <<>>, <<>>) IN
         IF Len(r.errors) # 0
         THEN [field |-> field, errors |-> r.errors, raise |-> ""]
         ELSE [field |-> [field EXCEPT !.whitelist = r.countries], errors |-> <<>>, raise |-> ""]

ChoiceFieldModel_to_field(self, id) ==
    [FormField("choice", TransString_create_from_model(self.label), self.is_required)
        EXCEPT !.choices =
            [i \in DOMAIN self.choices |->
                Item(self.choices[i].key,
                     ContainedTransString_create_from_model(self.choices[i].val))]]

\* max_size_bytes is assigned only when the request carries one
FileFieldModel_to_field(self, id) ==
    LET field == [FormField("file", TransString_create_from_model(self.label),
                            self.is_required) EXCEPT !.fill = self.fill] IN
    IF self.max_size_bytes # None
    THEN [field EXCEPT !.max_size_bytes = self.max_size_bytes]
    ELSE field

RegexFieldModel_to_field(self, id) ==
    [FormField("regex", TransString_create_from_model(self.label), self.is_required)
        EXCEPT !.regex = self.regex, !.max_length = self.max_length, !.fill = self.fill]

TextFieldModel_to_field(self, id) ==
    [FormField("text", TransString_create_from_model(self.label), self.is_required)
        EXCEPT !.max_length = self.max_length]

EmailFieldModel_to_field(self, id) ==
    [FormField("email", TransString_create_from_model(self.label), self.is_required)
        EXCEPT !.max_length = self.max_length]

\* the label has no method to_document: the attribute lookup raises before a
\* GenderField is built
GenderFieldModel_to_field(self, id) ==
    [field |-> FormField("gender", None, self.is_required), errors |-> <<>>,
     raise |-> "AttributeError"]

\* checked_by_default is assigned only when the request carries True
CheckBoxFieldModel_to_field(self, id) ==
    LET field == FormField("checkbox", TransString_create_from_model(self.label),
                           self.is_required) IN
    IF self.checked_by_default # None /\ self.checked_by_default[1]
    THEN [field EXCEPT !.checked_by_default = Some(TRUE)]
    ELSE field

IntegerFieldModel_to_field(self, id) ==
    [FormField("integer", TransString_create_from_model(self.label), self.is_required)
        EXCEPT !.min = self.min, !.max = self.max, !.fill = self.fill]

DateFieldModel_to_field(self, id) ==
    [FormField("date", TransString_create_from_model(self.label), self.is_required)
        EXCEPT !.fill = self.fill]

Built(field) == [field |-> field, errors |-> <<>>, raise |-> ""]

\* dispatch on the discriminator 'type'
to_field(field_model, id) ==
    CASE field_model.type = "string" -> Built(StringFieldModel_to_field(field_model, id))
      [] field_model.type = "regex" -> Built(RegexFieldModel_to_field(field_model, id))
      [] field_model.type = "text" -> Built(TextFieldModel_to_field(field_model, id))
      [] field_model.type = "email" -> Built(EmailFieldModel_to_field(field_model, id))
      [] field_model.type = "phone_number" -> PhoneNumberFieldModel_to_field(field_model, id)
      [] field_model.type = "choice" -> Built(ChoiceFieldModel_to_field(field_model, id))
      [] field_model.type = "gender" -> GenderFieldModel_to_field(field_model, id)
      [] field_model.type = "file" -> Built(FileFieldModel_to_field(field_model, id))
      [] field_model.type = "checkbox" -> Built(CheckBoxFieldModel_to_field(field_model, id))
      [] field_model.type = "integer" -> Built(IntegerFieldModel_to_field(field_model, id))
      [] field_model.type = "date" -> Built(DateFieldModel_to_field(field_model, id))

----------------------------------------------------------------------------
(* Rendering: a descriptor is a record; in `d @@ super` the keys of d win, as *)
(* the later keys of a dict display do                                        *)

FormField_to_dict(self, language) ==
    [label |-> TransString_get_translation(self.label, language),
     is_required |-> self.is_required]

StringField_to_dict(self, language) ==
    [type |-> "string", max_length |-> self.max_length] @@ FormField_to_dict(self, language)

RegexField_to_dict(self, language) ==
    [type |-> "regex", regex |-> self.regex] @@ StringField_to_dict(self, language)

TextField_to_dict(self, language) ==
    [type |-> "text", max_length |-> self.max_length] @@ FormField_to_dict(self, language)

EmailField_to_dict(self, language) ==
    [type |-> "email", max_length |-> self.max_length] @@ FormField_to_dict(self, language)

PhoneNumberField_to_dict(self, language) ==
    [type |-> "phone_number", whitelist |-> self.whitelist] @@ FormField_to_dict(self, language)

FileField_to_dict(self, language) ==
    [type |-> "file", max_size_bytes |-> self.max_size_bytes]
        @@ FormField_to_dict(self, language)

CheckBoxField_to_dict(self, language) ==
    [type |-> "checkbox",
     checked |-> IF self.checked_by_default = None THEN FALSE ELSE self.checked_by_default[1]]
        @@ FormField_to_dict(self, language)

IntegerField_to_dict(self, language) ==
    [type |-> "integer", min |-> self.min, max |-> self.max]
        @@ FormField_to_dict(self, language)

DateField_to_dict(self, language) ==
    [type |-> "date"] @@ FormField_to_dict(self, language)

Rendered(value) == [raise |-> "", value |-> value]

\* the comprehension iterates the mapping itself, so each key string is
\* unpacked into `key, label`: a key of two characters yields a character as
\* label, which has no get_translation; any other key cannot be unpacked
ChoiceField_to_dict(self, language) ==
    IF Len(self.choices) = 0
    THEN Rendered([type |-> "choice", choices |-> <<>>] @@ FormField_to_dict(self, language))
    ELSE [raise |-> IF Len(self.choices[1].key) = 2 THEN "AttributeError" ELSE "ValueError",
          value |-> None]

\* MALE_STRING and FEMALE_STRING are built by a method the label model does
\* not have
GenderField_to_dict(self, language) == [raise |-> "AttributeError", value |-> None]

\* dispatch on the class of the field; returns [raise, value]
to_dict(self, language) ==
    CASE self.type = "string" -> Rendered(StringField_to_dict(self, language))
      [] self.type = "regex" -> Rendered(RegexField_to_dict(self, language))
      [] self.type = "text" -> Rendered(TextField_to_dict(self, language))
      [] self.type = "email" -> Rendered(EmailField_to_dict(self, language))
      [] self.type = "phone_number" -> Rendered(PhoneNumberField_to_dict(self, language))
      [] self.type = "choice" -> ChoiceField_to_dict(self, language)
      [] self.type = "gender" -> GenderField_to_dict(self, language)
      [] self.type = "file" -> Rendered(FileField_to_dict(self, language))
      [] self.type = "checkbox" -> Rendered(CheckBoxField_to_dict(self, language))
      [] self.type = "integer" -> Rendered(IntegerField_to_dict(self, language))
      [] self.type = "date" -> Rendered(DateField_to_dict(self, language))

RECURSIVE OpportunityForm_to_dict_loop(_, _, _, _)
OpportunityForm_to_dict_loop(fields, language, i, value) ==
    IF i > Len(fields) THEN Rendered(value)
    ELSE LET r == to_dict(fields[i].val, language) IN
         IF r.raise # "" THEN r
         ELSE OpportunityForm_to_dict_loop(fields, language, i + 1,
                  Append(value, [key |-> fields[i].key, val |-> r.value]))

\* OpportunityForm.to_dict: the descriptors keyed by field id, in the order of self.fields
OpportunityForm_to_dict(self, language) ==
    OpportunityForm_to_dict_loop(self.fields, language, 1, <<>>)

----------------------------------------------------------------------------
(* UserInfo: instances [user, name, surname, birthday]                        *)

\* UserInfo(user=user), as User.create builds it
UserInfo(user) == [user |-> user, name |-> None, surname |-> None, birthday |-> None]

UserInfo_update_name(self, name) == [self EXCEPT !.name = name]

UserInfo_update_surname(self, surname) == [self EXCEPT !.surname = surname]

\* the assignment's right-hand side is the name `date`, the class imported from
\* datetime, not the parameter
UserInfo_update_birthday(self, birthday) == [self EXCEPT !.birthday = Some(DateClass)]

\* the handlers of the fields the request carries, each applied once; no handler
\* reads what another wrote, and update does not save
UserInfo_update(self, fields) ==
    LET named == IF "name" \in fields.model_fields_set
                 THEN UserInfo_update_name(self, fields.name) ELSE self
        surnamed == IF "surname" \in fields.model_fields_set
                    THEN UserInfo_update_surname(named, fields.surname) ELSE named
    IN  IF "birthday" \in fields.model_fields_set
        THEN UserInfo_update_birthday(surnamed, fields.birthday)
        ELSE surnamed

\* returns the pair (present, value)
DateField_fill_input(self, user, info) ==
    IF self.fill = Some("BIRTHDAY") /\ info.birthday # None
    THEN [present |-> TRUE, value |-> info.birthday]
    ELSE [present |-> FALSE, value |-> None]

----------------------------------------------------------------------------
(* File: documents [id, size_bytes, access_mode, state, owner_id]; the        *)
(* extension, the bucket and the stored object are left out                  *)

\* File.create: `extension_ok` is the outcome of the extension pattern,
\* `upload_ok` that of the upload; a failed upload deletes the saved document
File_create(collection, id, extension_ok, upload_ok, size_bytes, access_mode, owner_id) ==
    LET instance == [id |-> id, size_bytes |-> size_bytes, access_mode |-> access_mode,
                     state |-> "ALIVE", owner_id |-> owner_id] IN
    IF ~extension_ok THEN collection
    ELSE IF ~upload_ok THEN (collection \cup {instance}) \ {instance}
    ELSE collection \cup {instance}

File_mark_for_deletion(collection, self) ==
    (collection \ {self}) \cup {[self EXCEPT !.state = "MARKED_FOR_DELETION"]}

\* File_can_access without the look at the state
File_can_access_ignores_state(self, accessor_id) ==
    IF self.access_mode = "PUBLIC" THEN [raise |-> "", value |-> TRUE]
    ELSE IF self.owner_id = None THEN [raise |-> "AssertionError", value |-> FALSE]
    ELSE [raise |-> "", value |-> self.owner_id = Some(accessor_id)]

\* returns [raise, value]
File_can_access(self, accessor_id) ==
    IF self.state # "ALIVE" THEN [raise |-> "", value |-> FALSE]
    ELSE IF self.access_mode = "PUBLIC" THEN [raise |-> "", value |-> TRUE]
    ELSE IF self.owner_id = None THEN [raise |-> "AssertionError", value |-> FALSE]
    ELSE [raise |-> "", value |-> self.owner_id = Some(accessor_id)]

----------------------------------------------------------------------------
(* Submission-time validation of one answer: returns [raise, errors] *)

NoError == [raise |-> "", errors |-> <<>>]

\* FormField_post_validate_input comparing the answer to an integer field with
\* its lower bound
FormField_post_validate_input_checks_min(self, id, input) ==
    IF self.type = "integer" /\ self.min # None /\ Len(input) = 1 /\ input[1] < self.min[1]
    THEN [raise |-> "", errors |-> <<Error("INTEGER_OUT_OF_BOUNDS", id)>>]
    ELSE NoError

FormField_post_validate_input(self, id, input) == NoError

\* PhoneNumberField_post_validate_input without the whitelist check
PhoneNumberField_post_validate_input_any_country(self, id, input) ==
    IF Len(input) # 2
    THEN [raise |-> "TypeError", errors |-> <<>>]
    ELSE IF input[1] \notin country
    THEN [raise |-> "",
          errors |-> <<Error("PHONE_NUMBER_INVALID_COUNTRY_ID", id)>>]
    ELSE NoError

PhoneNumberField_post_validate_input(self, id, input) ==
    IF Len(input) # 2
    THEN [raise |-> "TypeError", errors |-> <<>>]
    ELSE IF input[1] \notin country
    THEN [raise |-> "",
          errors |-> <<Error("PHONE_NUMBER_INVALID_COUNTRY_ID", id)>>]
    ELSE IF Len(self.whitelist) # 0
            /\ ~(\E i \in DOMAIN self.whitelist : self.whitelist[i] = input[1])
    THEN [raise |-> "",
          errors |-> <<Error("PHONE_NUMBER_NON_WHITELIST_COUNTRY", id)>>]
    ELSE NoError

ChoiceField_post_validate_input(self, id, input) ==
    IF Len(input) = 2
    THEN [raise |-> "TypeError", errors |-> <<>>]
    ELSE IF input # None /\ ~dict_has(self.choices, input[1])
    THEN [raise |-> "", errors |-> <<Error("INVALID_CHOICE", id)>>]
    ELSE NoError

\* an answer that is not a single id cannot be looked up
FileField_post_validate_input(self, id, input, user) ==
    IF input = None THEN NoError
    ELSE IF Len(input) # 1 THEN [raise |-> "ValidationError", errors |-> <<>>]
    ELSE LET found == {f \in file : f.id = input[1]} IN
         IF found = {} \/ (\E f \in found : f.state = "MARKED_FOR_DELETION")
         THEN [raise |-> "", errors |-> <<Error("FILE_INVALID_ID", id)>>]
         ELSE LET f == CHOOSE f \in found : TRUE
                  access == File_can_access(f, user) IN
              IF access.raise # "" THEN [raise |-> access.raise, errors |-> <<>>]
              ELSE IF ~access.value
              THEN [raise |-> "", errors |-> <<Error("FILE_CANT_ACCESS", id)>>]
              ELSE IF self.max_size_bytes = None
              THEN \* an int does not compare with None
                   [raise |-> "TypeError", errors |-> <<>>]
              ELSE IF f.size_bytes > self.max_size_bytes[1]
              THEN [raise |-> "", errors |-> <<Error("FILE_EXCEEDS_SIZE", id)>>]
              ELSE NoError

\* `user` is the keyword argument every call passes
post_validate_input(self, id, input, user) ==
    CASE self.type = "phone_number" -> PhoneNumberField_post_validate_input(self, id, input)
      [] self.type = "choice" -> ChoiceField_post_validate_input(self, id, input)
      [] self.type = "file" -> FileField_post_validate_input(self, id, input, user)
      [] OTHER -> FormField_post_validate_input(self, id, input)

----------------------------------------------------------------------------
(* Request models (pydantic): "" when the request validates, else the error type *)

\* IntegerFieldModel_validate rejecting equal bounds as well
IntegerFieldModel_validate_rejects_equal(raw) ==
    IF raw.min # None /\ raw.max # None /\ raw.max[1] <= raw.min[1]
    THEN "invalid_bounds"
    ELSE ""

\* validate_bounds; "" stands for an accepted definition
IntegerFieldModel_validate(raw) ==
    IF raw.min # None /\ raw.max # None /\ raw.max[1] < raw.min[1]
    THEN "invalid_bounds"
    ELSE ""

\* the validator of the member of the union that the discriminator selects
FormFieldModels_validate(raw) ==
    IF raw.type = "integer" THEN IntegerFieldModel_validate(raw) ELSE ""

\* the items of the `fields` mapping, in order: the first error found
RECURSIVE FieldsModel_validate(_, _)
FieldsModel_validate(fields, i) ==
    IF i > Len(fields) THEN ""
    ELSE IF FormFieldModels_validate(fields[i].val) # ""
    THEN FormFieldModels_validate(fields[i].val)
    ELSE FieldsModel_validate(fields, i + 1)

OpportunityFormModel_validate(raw) ==
    IF "fields" \notin raw.model_fields_set THEN "missing"
    ELSE IF raw.fields = None THEN "dict_type"
    ELSE IF Len(raw.fields[1]) < 1 THEN "too_short"
    ELSE FieldsModel_validate(raw.fields[1], 1)

\* UpdateOpportunityFormModel_validate without the null_fields check
UpdateOpportunityFormModel_validate_no_null_check(raw) ==
    IF raw.fields # None /\ Len(raw.fields[1]) < 1 THEN "too_short"
    ELSE IF raw.fields # None /\ FieldsModel_validate(raw.fields[1], 1) # ""
    THEN FieldsModel_validate(raw.fields[1], 1)
    ELSE IF raw.model_fields_set \ {"bump_version"} = {} THEN "empty_update"
    ELSE ""

\* UpdateOpportunityFormModel_validate without the empty_update check
UpdateOpportunityFormModel_validate_no_empty_check(raw) ==
    IF raw.fields # None /\ Len(raw.fields[1]) < 1 THEN "too_short"
    ELSE IF raw.fields # None /\ FieldsModel_validate(raw.fields[1], 1) # ""
    THEN FieldsModel_validate(raw.fields[1], 1)
    ELSE IF "fields" \in raw.model_fields_set /\ raw.fields = None THEN "null_fields"
    ELSE ""

UpdateOpportunityFormModel_validate(raw) ==
    IF raw.fields # None /\ Len(raw.fields[1]) < 1 THEN "too_short"
    ELSE IF raw.fields # None /\ FieldsModel_validate(raw.fields[1], 1) # ""
    THEN FieldsModel_validate(raw.fields[1], 1)
    ELSE IF raw.model_fields_set \ {"bump_version"} = {} THEN "empty_update"
    ELSE IF "fields" \in raw.model_fields_set /\ raw.fields = None THEN "null_fields"
    ELSE ""

----------------------------------------------------------------------------
(* Storage *)

with_id(collection, pk) == {d \in collection : d.opportunity = pk}

\* Document.validate of an OpportunityForm: `fields` is a required MapField
OpportunityForm_validate(doc) == Len(doc.fields) # 0

\* Document.save of a document whose primary key is `opportunity`
OpportunityForm_save(collection, doc) ==
    {d \in collection : d.opportunity # doc.opportunity} \cup {doc}

\* the attributes OpportunityForm.update assigns, which the document records as changed
changed_fields(model) ==
    {"version" : x \in {"bump_version"} \cap model.model_fields_set}
    \cup ({"submit_method", "fields"} \cap model.model_fields_set)

\* OpportunityForm_save_changes writing the field map entry by entry
OpportunityForm_save_changes_per_key(collection, doc, changed) ==
    LET RECURSIVE merge(_, _, _)
        merge(fields, new, i) ==
            IF i > Len(new) THEN fields
            ELSE merge(dict_set(fields, new[i].key, new[i].val), new, i + 1)
    IN  { IF d.opportunity # doc.opportunity THEN d
          ELSE [d EXCEPT
                  !.version = IF "version" \in changed THEN doc.version ELSE @,
                  !.submit_method = IF "submit_method" \in changed
                                    THEN doc.submit_method ELSE @,
                  !.fields = IF "fields" \in changed THEN merge(@, doc.fields, 1) ELSE @]
          : d \in collection }

\* Document.save of a document that was loaded from the collection: only the
\* changed attributes are written, each as a whole
OpportunityForm_save_changes(collection, doc, changed) ==
    { IF d.opportunity # doc.opportunity THEN d
      ELSE [d EXCEPT
              !.version = IF "version" \in changed THEN doc.version ELSE @,
              !.submit_method = IF "submit_method" \in changed THEN doc.submit_method ELSE @,
              !.fields = IF "fields" \in changed THEN doc.fields ELSE @]
      : d \in collection }

\* Document.validate of an OpportunityFormResponse: `data` is a required DictField
OpportunityFormResponse_validate(doc) == Len(doc.data) # 0

\* OpportunityFormResponse_save keeping one document per user
OpportunityFormResponse_save_one_per_user(collection, doc) ==
    Append(SelectSeq(collection, LAMBDA d : d.user # doc.user), doc)

\* Document.save of a new document with a generated id
OpportunityFormResponse_save(collection, doc) == Append(collection, doc)

----------------------------------------------------------------------------
(* OpportunityForm *)

YandexFormsSubmitMethodModel_to_submit_method(self) == [url |-> self.url]

update_submit_method(self, submit_method_model) ==
    IF submit_method_model = None
    THEN [self EXCEPT !.submit_method = None]
    ELSE [self EXCEPT !.submit_method =
              Some(YandexFormsSubmitMethodModel_to_submit_method(submit_method_model[1]))]

RECURSIVE update_fields_loop(_, _, _, _)
update_fields_loop(fields_model, i, fields, errors) ==
    IF i > Len(fields_model)
    THEN [fields |-> fields, errors |-> errors, raise |-> ""]
    ELSE LET step(key, field) ==
                 IF field.raise # ""
                 THEN [fields |-> fields, errors |-> errors, raise |-> field.raise]
                 ELSE IF Len(field.errors) = 0
                 THEN update_fields_loop(fields_model, i + 1,
                                         dict_set(fields, key, field.field), errors)
                 ELSE update_fields_loop(fields_model, i + 1, fields,
                                         errors \o field.errors)
         IN  step(fields_model[i].key, to_field(fields_model[i].val, fields_model[i].key))

\* returns [errors, self, raise]; errors = <<>> stands for the return value None
update_fields(self, fields_model) ==
    LET result(r) ==
            IF r.raise # ""
            THEN [errors |-> <<>>, self |-> self, raise |-> r.raise]
            ELSE IF Len(r.errors) # 0
            THEN [errors |-> r.errors, self |-> self, raise |-> ""]
            ELSE [errors |-> <<>>, self |-> [self EXCEPT !.fields = r.fields], raise |-> ""]
    IN  result(update_fields_loop(fields_model, 1, <<>>, <<>>))

Returned(kind, code, errors) == [kind |-> kind, code |-> code, errors |-> errors]

\* OpportunityForm_create saving the form before looking at the field errors
OpportunityForm_create_saves_first(collection, opportunity, model) ==
    LET self == [opportunity |-> opportunity, version |-> 1,
                 submit_method |-> None, fields |-> <<>>]
        r == update_fields_loop(model.fields[1], 1, <<>>, <<>>)
        updated == update_submit_method([self EXCEPT !.fields = r.fields], model.submit_method)
    IN  IF Len(r.errors) # 0
        THEN [ret |-> Returned("errors", "", r.errors),
              collection |-> OpportunityForm_save(collection, updated)]
        ELSE [ret |-> Returned("ok", "", <<>>),
              collection |-> OpportunityForm_save(collection, updated)]

\* OpportunityForm_create building the document with version 0
OpportunityForm_create_version_zero(collection, opportunity, model) ==
    LET self == [opportunity |-> opportunity, version |-> 0,
                 submit_method |-> None, fields |-> <<>>]
        r == update_fields(self, model.fields[1])
        updated == update_submit_method(r.self, model.submit_method)
    IN  IF Len(r.errors) # 0
        THEN [ret |-> Returned("errors", "", r.errors), collection |-> collection]
        ELSE IF ~OpportunityForm_validate(updated)
        THEN [ret |-> Returned("raise", "ValidationError", <<>>), collection |-> collection]
        ELSE [ret |-> Returned("ok", "", <<>>),
              collection |-> OpportunityForm_save(collection, updated)]

\* returns [ret, collection]
OpportunityForm_create(collection, opportunity, model) ==
    LET self == [opportunity |-> opportunity, version |-> 1,
                 submit_method |-> None, fields |-> <<>>]
        save(updated) ==
            IF ~OpportunityForm_validate(updated)
            THEN [ret |-> Returned("raise", "ValidationError", <<>>),
                  collection |-> collection]
            ELSE [ret |-> Returned("ok", "", <<>>),
                  collection |-> OpportunityForm_save(collection, updated)]
        result(r) ==
            IF r.raise # ""
            THEN [ret |-> Returned("raise", r.raise, <<>>), collection |-> collection]
            ELSE IF Len(r.errors) # 0
            THEN [ret |-> Returned("errors", "", r.errors), collection |-> collection]
            ELSE save(update_submit_method(r.self, model.submit_method))
    IN  result(update_fields(self, model.fields[1]))

\* OpportunityForm_update applying version and submit method, and saving,
\* before returning the field errors
OpportunityForm_update_saves_first(collection, self, model) ==
    LET r == IF "fields" \in model.model_fields_set /\ model.fields # None
             THEN update_fields(self, model.fields[1])
             ELSE [errors |-> <<>>, self |-> self]
        bumped == IF "bump_version" \in model.model_fields_set
                  THEN [r.self EXCEPT !.version = @ + 1]
                  ELSE r.self
        updated == IF "submit_method" \in model.model_fields_set
                   THEN update_submit_method(bumped, model.submit_method)
                   ELSE bumped
    IN  IF Len(r.errors) # 0
        THEN [ret |-> Returned("errors", "", r.errors),
              collection |-> OpportunityForm_save(collection, updated)]
        ELSE [ret |-> Returned("ok", "", <<>>),
              collection |-> OpportunityForm_save(collection, updated)]

\* returns [ret, collection]
OpportunityForm_update(collection, self, model) ==
    LET bumped(form) == IF "bump_version" \in model.model_fields_set
                        THEN [form EXCEPT !.version = @ + 1]
                        ELSE form
        updated(form) == IF "submit_method" \in model.model_fields_set
                         THEN update_submit_method(form, model.submit_method)
                         ELSE form
        save(form) ==
            IF ~OpportunityForm_validate(form)
            THEN [ret |-> Returned("raise", "ValidationError", <<>>),
                  collection |-> collection]
            ELSE [ret |-> Returned("ok", "", <<>>),
                  collection |-> OpportunityForm_save(collection, form)]
        result(r) ==
            IF r.raise # ""
            THEN [ret |-> Returned("raise", r.raise, <<>>), collection |-> collection]
            ELSE IF Len(r.errors) # 0
            THEN [ret |-> Returned("errors", "", r.errors), collection |-> collection]
            ELSE save(updated(bumped(r.self)))
    IN  IF "fields" \in model.model_fields_set /\ model.fields = None
        THEN \* None has no items()
             [ret |-> Returned("raise", "AttributeError", <<>>), collection |-> collection]
        ELSE result(IF "fields" \in model.model_fields_set
                    THEN update_fields(self, model.fields[1])
                    ELSE [errors |-> <<>>, self |-> self, raise |-> ""])

----------------------------------------------------------------------------
(* OpportunityFormResponse *)

RECURSIVE validation_loop(_, _, _, _, _)
validation_loop(form, data, user, i, errors) ==
    IF i > Len(data)
    THEN [raise |-> "", errors |-> errors]
    ELSE LET key == data[i].key IN
         IF ~dict_has(form.fields, key)
         THEN [raise |-> "KeyError", errors |-> errors]
         ELSE LET result == post_validate_input(dict_get(form.fields, key), key,
                                                data[i].val, user) IN
              IF result.raise # ""
              THEN [raise |-> result.raise, errors |-> errors]
              ELSE validation_loop(form, data, user, i + 1, errors \o result.errors)

\* OpportunityFormResponse_create without the early return on errors
OpportunityFormResponse_create_no_return(collection, user, form, data, now) ==
    LET v == validation_loop(form, data, user, 1, <<>>)
        doc == [user |-> user, form |-> form.opportunity,
                form_version |-> form.version, data |-> data, creation_time |-> now]
    IN  IF v.raise # ""
        THEN [ret |-> Returned("raise", v.raise, <<>>), collection |-> collection]
        ELSE IF ~OpportunityFormResponse_validate(doc)
        THEN [ret |-> Returned("raise", "ValidationError", <<>>), collection |-> collection]
        ELSE [ret |-> Returned("ok", "", <<>>),
              collection |-> OpportunityFormResponse_save(collection, doc)]

\* OpportunityFormResponse_create returning only the first error found
OpportunityFormResponse_create_first_error(collection, user, form, data, now) ==
    LET v == validation_loop(form, data, user, 1, <<>>)
        doc == [user |-> user, form |-> form.opportunity,
                form_version |-> form.version, data |-> data, creation_time |-> now]
    IN  IF v.raise # ""
        THEN [ret |-> Returned("raise", v.raise, <<>>), collection |-> collection]
        ELSE IF Len(v.errors) # 0
        THEN [ret |-> Returned("errors", "", <<v.errors[1]>>), collection |-> collection]
        ELSE IF ~OpportunityFormResponse_validate(doc)
        THEN [ret |-> Returned("raise", "ValidationError", <<>>), collection |-> collection]
        ELSE [ret |-> Returned("ok", "", <<>>),
              collection |-> OpportunityFormResponse_save(collection, doc)]

\* returns [ret, collection]; `now` is the clock's value when the document is built
OpportunityFormResponse_create(collection, user, form, data, now) ==
    LET v == validation_loop(form, data, user, 1, <<>>)
        doc == [user |-> user, form |-> form.opportunity,
                form_version |-> form.version, data |-> data, creation_time |-> now]
    IN  IF v.raise # ""
        THEN [ret |-> Returned("raise", v.raise, <<>>), collection |-> collection]
        ELSE IF Len(v.errors) # 0
        THEN [ret |-> Returned("errors", "", v.errors), collection |-> collection]
        ELSE IF ~OpportunityFormResponse_validate(doc)
        THEN [ret |-> Returned("raise", "ValidationError", <<>>), collection |-> collection]
        ELSE [ret |-> Returned("ok", "", <<>>),
              collection |-> OpportunityFormResponse_save(collection, doc)]

----------------------------------------------------------------------------
(* API keys: documents [cls, key, expiry, user, ip] of the collection         *)
(* 'api_key'; a full key is the pair <<prefix, key>> that str() joins and     *)
(* get() splits at '-'                                                        *)

\* sha256 over the clock's reading followed by the salt: a digest is taken to
\* identify its input
generate_key(clock, salt) == <<clock, salt>>

\* every key generate_key can produce for a user and an address
Keys ==
    { generate_key(t, user.username \o ip) :
        t \in 1..MaxTime, user \in KeyUsers, ip \in IPv4Addresses }

PREFIX_TO_TABLE(prefix) ==
    CASE prefix = "usr" -> [category |-> "PERSONAL", table |-> "PersonalAPIKey"]
      [] prefix = "dev" -> [category |-> "DEVELOPER", table |-> "DeveloperAPIKey"]

\* PersonalAPIKey.get and DeveloperAPIKey.get: the documents of the class with that key
table_get(collection, table, key) == {d \in collection : d.cls = table /\ d.key = key}

\* APIKey_get taking a key that expires at this instant as valid
APIKey_get_valid_at_expiry(collection, full_key, allowed_categories, clock) ==
    LET entry == PREFIX_TO_TABLE(full_key[1])
        found == table_get(collection, entry.table, full_key[2]) IN
    IF allowed_categories # {} /\ entry.category \notin allowed_categories
    THEN [ret |-> Returned("error", "INVALID_CATEGORY", <<>>), collection |-> collection]
    ELSE IF found = {}
    THEN [ret |-> Returned("error", "INVALID_KEY", <<>>), collection |-> collection]
    ELSE LET instance == CHOOSE d \in found : TRUE IN
         IF instance.expiry < clock
         THEN [ret |-> Returned("error", "INVALID_KEY", <<>>),
               collection |-> collection \ {instance}]
         ELSE [ret |-> Returned("ok", "", <<instance>>), collection |-> collection]

\* returns [ret, collection]; a returned instance is carried in ret.errors' place
APIKey_get(collection, full_key, allowed_categories, clock) ==
    LET entry == PREFIX_TO_TABLE(full_key[1])
        found == table_get(collection, entry.table, full_key[2]) IN
    IF allowed_categories # {} /\ entry.category \notin allowed_categories
    THEN [ret |-> Returned("error", "INVALID_CATEGORY", <<>>), collection |-> collection]
    ELSE IF found = {}
    THEN [ret |-> Returned("error", "INVALID_KEY", <<>>), collection |-> collection]
    ELSE LET instance == CHOOSE d \in found : TRUE IN
         IF instance.expiry <= clock
         THEN [ret |-> Returned("error", "INVALID_KEY", <<>>),
               collection |-> collection \ {instance}]
         ELSE [ret |-> Returned("ok", "", <<instance>>), collection |-> collection]

\* PersonalAPIKey_generate leaving the key of the pair in place
PersonalAPIKey_generate_keeps_previous(collection, user, ip, expiry, clock) ==
    LET instance == [cls |-> "PersonalAPIKey",
                     key |-> generate_key(clock, user.username \o ip),
                     expiry |-> expiry, user |-> user.id, ip |-> ip] IN
    IF user.id = None
    THEN [ret |-> Returned("raise", "ValueError", <<>>), collection |-> collection]
    ELSE [ret |-> Returned("ok", "", <<instance>>), collection |-> collection \cup {instance}]

\* returns [ret, collection]; save() refuses a document whose key, or whose
\* user and ip, a stored document has
PersonalAPIKey_generate(collection, user, ip, expiry, clock) ==
    LET remaining == {d \in collection :
                        ~(d.cls = "PersonalAPIKey" /\ d.user = user.id /\ d.ip = ip)}
        instance == [cls |-> "PersonalAPIKey",
                     key |-> generate_key(clock, user.username \o ip),
                     expiry |-> expiry, user |-> user.id, ip |-> ip] IN
    IF user.id = None
    THEN [ret |-> Returned("raise", "ValueError", <<>>), collection |-> collection]
    ELSE IF \E d \in remaining : d.key = instance.key
    THEN [ret |-> Returned("raise", "NotUniqueError", <<>>), collection |-> remaining]
    ELSE [ret |-> Returned("ok", "", <<instance>>), collection |-> remaining \cup {instance}]

----------------------------------------------------------------------------
(* The state machine *)

NoRequest == RawRequest({}, TRUE, None, None)

\* `now` is the clock's value during the call (0 where the call does not read it)
Call(op, opportunity, user, request, data, now) ==
    [op |-> op, opportunity |-> opportunity, user |-> user, request |-> request,
     data |-> data, now |-> now]

\* a caller of OpportunityForm.update that has not loaded anything
Idle == [pc |-> "idle", loaded |-> None, updated |-> None, request |-> NoRequest,
         ret |-> Returned("init", "", <<>>)]

\* a caller of OpportunityFormResponse.create that holds no schema instance
NotLoaded == [pc |-> "idle", form |-> None, response |-> 0]

Init ==
    /\ opportunity_form = {}
    /\ opportunity_form_response = <<>>
    /\ validated_with = <<>>
    /\ file = {}
    /\ writers = [w \in Writers |-> Idle]
    /\ submitters = [s \in Submitters |-> NotLoaded]
    /\ user_info = {}
    /\ api_key = {}
    /\ utc_now = 1
    /\ call = Call("init", "", "", NoRequest, <<>>, 0)
    /\ ret = Returned("init", "", <<>>)

\* a create request: the request model is validated, then OpportunityForm.create runs
CreateFormWith(requests) ==
    \E opportunity \in Opportunities, raw \in requests :
        LET invalid == OpportunityFormModel_validate(raw)
            r == OpportunityForm_create(opportunity_form, opportunity, raw)
        IN  /\ call' = Call("create", opportunity, "", raw, <<>>, 0)
            /\ IF invalid # ""
               THEN /\ ret' = Returned("validation_error", invalid, <<>>)
                    /\ opportunity_form' = opportunity_form
               ELSE /\ ret' = r.ret
                    /\ opportunity_form' = r.collection
            /\ UNCHANGED <<opportunity_form_response, validated_with, file, writers, submitters,
                           user_info, api_key, utc_now>>

CreateForm == CreateFormWith(CreateRequests)

UpdateFormWith(requests) ==
    \E self \in opportunity_form, raw \in requests :
        LET invalid == UpdateOpportunityFormModel_validate(raw)
            r == OpportunityForm_update(opportunity_form, self, raw)
        IN  /\ self.version < MaxVersion
            /\ call' = Call("update", self.opportunity, "", raw, <<>>, 0)
            /\ IF invalid # ""
               THEN /\ ret' = Returned("validation_error", invalid, <<>>)
                    /\ opportunity_form' = opportunity_form
               ELSE /\ ret' = r.ret
                    /\ opportunity_form' = r.collection
            /\ UNCHANGED <<opportunity_form_response, validated_with, file, writers, submitters,
                           user_info, api_key, utc_now>>

\* an update request on a stored form
UpdateForm == UpdateFormWith(UpdateRequests)

\* a submission against a stored form
CreateResponseWith(answers) ==
    \E user \in Users, form \in opportunity_form, data \in answers, now \in Clock :
        LET r == OpportunityFormResponse_create(opportunity_form_response, user, form,
                                                data, now)
        IN  /\ Len(opportunity_form_response) < MaxResponses
            /\ call' = Call("response_create", form.opportunity, user, NoRequest, data, now)
            /\ ret' = r.ret
            /\ opportunity_form_response' = r.collection
            /\ validated_with' =
                   IF r.ret.kind = "ok"
                   THEN Append(validated_with,
                               [fields |-> form.fields, submit_method |-> form.submit_method])
                   ELSE validated_with
            /\ UNCHANGED <<opportunity_form, file, writers, submitters, user_info, api_key, utc_now>>

CreateResponse == CreateResponseWith(DataInputs)

\* File.create with a fresh id
FileCreate ==
    \E id \in FileIds, extension_ok \in BOOLEAN, upload_ok \in BOOLEAN,
       size_bytes \in FileSizes, access_mode \in {"PRIVATE", "PUBLIC"}, owner_id \in FileOwners :
        /\ \A f \in file : f.id # id
        /\ file' = File_create(file, id, extension_ok, upload_ok, size_bytes, access_mode,
                               owner_id)
        /\ call' = Call("file_create", "", "", NoRequest, <<>>, 0)
        /\ ret' = IF ~extension_ok THEN Returned("error", "INVALID_EXTENSION", <<>>)
                  ELSE IF ~upload_ok THEN Returned("error", "S3_UPLOAD_ERROR", <<>>)
                  ELSE Returned("ok", "", <<>>)
        /\ UNCHANGED <<opportunity_form, opportunity_form_response, validated_with, writers,
                       submitters, user_info, api_key, utc_now>>

FileMarkForDeletion ==
    \E self \in file :
        /\ file' = File_mark_for_deletion(file, self)
        /\ call' = Call("mark_for_deletion", "", "", NoRequest, <<>>, 0)
        /\ ret' = Returned("ok", "", <<>>)
        /\ UNCHANGED <<opportunity_form, opportunity_form_response, validated_with, writers,
                       submitters, user_info, api_key, utc_now>>

Next == CreateForm \/ UpdateForm \/ CreateResponse

Spec == Init /\ [][Next]_vars

\* schema authoring alone: submissions never change a schema
NextSchema == CreateForm \/ UpdateForm

SpecSchema == Init /\ [][NextSchema]_vars

\* submissions against schemas as created: a schema update never changes a
\* stored submission
NextSubmit == CreateForm \/ CreateResponse

SpecSubmit == Init /\ [][NextSubmit]_vars

\* schema authoring with phone number whitelists
CreateFormWhitelist == CreateFormWith(WhitelistCreateRequests)

UpdateFormWhitelist == UpdateFormWith(WhitelistUpdateRequests)

NextWhitelist == CreateFormWhitelist \/ UpdateFormWhitelist

SpecWhitelist == Init /\ [][NextWhitelist]_vars

\* submissions against choice and phone number fields
CreateFormAnswers == CreateFormWith(AnswerCreateRequests)

CreateResponseAnswers == CreateResponseWith(AnswerDataInputs)

NextAnswers == CreateFormAnswers \/ CreateResponseAnswers

SpecAnswers == Init /\ [][NextAnswers]_vars

\* submissions against file fields
CreateFormFile == CreateFormWith(FileCreateRequests)

CreateResponseFile == CreateResponseWith(FileDataInputs)

NextFile == CreateFormFile \/ FileCreate \/ FileMarkForDeletion \/ CreateResponseFile

SpecFile == Init /\ [][NextFile]_vars

\* a caller loads the schema it is going to update
UpdateLoad(w) ==
    \E self \in opportunity_form, raw \in RaceUpdateRequests :
        /\ writers[w].pc = "idle"
        /\ UpdateOpportunityFormModel_validate(raw) = ""
        /\ writers' = [writers EXCEPT ![w] =
               [Idle EXCEPT !.pc = "loaded", !.loaded = Some(self), !.request = raw]]
        /\ UNCHANGED <<opportunity_form, opportunity_form_response, validated_with, file,
                       submitters, user_info, api_key, utc_now, call, ret>>

\* OpportunityForm.update on the loaded instance; its save() writes what it changed
UpdateSave(w) ==
    \E self \in {writers[w].loaded[i] : i \in DOMAIN writers[w].loaded} :
    \E r \in {OpportunityForm_update({self}, self, writers[w].request)} :
    \E updated \in {d \in r.collection : d.opportunity = self.opportunity} :
        /\ writers[w].pc = "loaded"
        /\ call' = Call("update", self.opportunity, "", writers[w].request, <<>>, 0)
        /\ ret' = r.ret
        /\ opportunity_form' =
               IF r.ret.kind = "ok"
               THEN OpportunityForm_save_changes(opportunity_form, updated,
                                                 changed_fields(writers[w].request))
               ELSE opportunity_form
        /\ writers' = [writers EXCEPT ![w] =
               [@ EXCEPT !.pc = "done", !.updated = Some(updated), !.ret = r.ret]]
        /\ UNCHANGED <<opportunity_form_response, validated_with, file, submitters,
                       user_info, api_key, utc_now>>

\* the schema is created once, before the callers start
CreateFormRace == opportunity_form = {} /\ CreateFormWith(RaceCreateRequests)

NextRace == CreateFormRace \/ (\E w \in Writers : UpdateLoad(w) \/ UpdateSave(w))

SpecRace == Init /\ [][NextRace]_vars

\* schema updates and submissions side by side
CreateFormStored == CreateFormWith(StoredCreateRequests)

UpdateFormStored == UpdateFormWith(StoredUpdateRequests)

CreateResponseStored == CreateResponseWith(StoredDataInputs)

NextStored == CreateFormStored \/ UpdateFormStored \/ CreateResponseStored

SpecStored == Init /\ [][NextStored]_vars

\* a caller of OpportunityFormResponse.create loads the schema it submits to
SubmitLoad(s) ==
    \E form \in opportunity_form :
        /\ submitters[s].pc = "idle"
        /\ submitters' = [submitters EXCEPT ![s] =
               [NotLoaded EXCEPT !.pc = "loaded", !.form = Some(form)]]
        /\ UNCHANGED <<opportunity_form, opportunity_form_response, validated_with, file,
                       writers, user_info, api_key, utc_now, call, ret>>

\* OpportunityFormResponse.create with the loaded instance
SubmitStore(s) ==
    \E user \in Users, data \in StoredDataInputs :
        LET form == submitters[s].form[1]
            r == OpportunityFormResponse_create(opportunity_form_response, user, form,
                                                data, utc_now)
        IN  /\ submitters[s].pc = "loaded"
            /\ Len(opportunity_form_response) < MaxResponses
            /\ call' = Call("response_create", form.opportunity, user, NoRequest, data,
                            utc_now)
            /\ ret' = r.ret
            /\ opportunity_form_response' = r.collection
            /\ validated_with' =
                   IF r.ret.kind = "ok"
                   THEN Append(validated_with,
                               [fields |-> form.fields, submit_method |-> form.submit_method])
                   ELSE validated_with
            /\ submitters' = [submitters EXCEPT ![s] =
                   [NotLoaded EXCEPT !.pc = "done",
                                     !.response = IF r.ret.kind = "ok"
                                                  THEN Len(r.collection) ELSE 0]]
            /\ UNCHANGED <<opportunity_form, file, writers, user_info, api_key, utc_now>>

\* a caller of update that loads the schema and saves later
StaleLoad(w) ==
    \E self \in opportunity_form, raw \in StoredUpdateRequests :
        /\ writers[w].pc = "idle"
        /\ self.version < MaxVersion
        /\ writers' = [writers EXCEPT ![w] =
               [Idle EXCEPT !.pc = "loaded", !.loaded = Some(self), !.request = raw]]
        /\ UNCHANGED <<opportunity_form, opportunity_form_response, validated_with, file,
                       submitters, user_info, api_key, utc_now, call, ret>>

CreateFormOnce == opportunity_form = {} /\ CreateFormWith(StoredCreateRequests)

\* submissions whose load and store interleave with schema updates
NextSubmitRace ==
    \/ CreateFormOnce
    \/ UpdateFormStored
    \/ StaleLoad("w1")
    \/ UpdateSave("w1")
    \/ \E s \in Submitters : SubmitLoad(s) \/ SubmitStore(s)

SpecSubmitRace == Init /\ [][NextSubmitRace]_vars

\* the same program when no update request mentions bump_version
DefaultBumpRequests == {raw \in UpdateRequests : "bump_version" \notin raw.model_fields_set}

UpdateFormDefaultBump == UpdateFormWith(DefaultBumpRequests)

NextDefaultBump == CreateForm \/ UpdateFormDefaultBump \/ CreateResponse

SpecDefaultBump == Init /\ [][NextDefaultBump]_vars

\* FormField.to_dict of one field of a stored form
FieldToDict ==
    \E self \in opportunity_form, i \in 1..3, language \in Language :
        /\ i <= Len(self.fields)
        /\ call' = [op |-> "field_to_dict", opportunity |-> self.opportunity,
                    id |-> self.fields[i].key, language |-> language]
        /\ ret' = to_dict(self.fields[i].val, language)
        /\ UNCHANGED <<opportunity_form, opportunity_form_response, validated_with, file,
                       writers, submitters, user_info, api_key, utc_now>>

\* OpportunityForm.to_dict of a stored form
FormToDict ==
    \E self \in opportunity_form, language \in Language :
        /\ call' = [op |-> "to_dict", opportunity |-> self.opportunity, language |-> language]
        /\ ret' = OpportunityForm_to_dict(self, language)
        /\ UNCHANGED <<opportunity_form, opportunity_form_response, validated_with, file,
                       writers, submitters, user_info, api_key, utc_now>>

CreateFormRender == CreateFormWith(RenderCreateRequests)

UpdateFormRender == UpdateFormWith(RenderUpdateRequests)

\* schemas of every field kind, and their rendering
NextRender == CreateFormRender \/ UpdateFormRender \/ FieldToDict \/ FormToDict

SpecRender == Init /\ [][NextRender]_vars

CreateFormInteger == CreateFormWith(IntegerCreateRequests)

UpdateFormInteger == UpdateFormWith(IntegerUpdateRequests)

\* definitions of integer fields
NextInteger == CreateFormInteger \/ UpdateFormInteger

SpecInteger == Init /\ [][NextInteger]_vars

CreateFormUnchecked == CreateFormWith(UncheckedCreateRequests)

CreateResponseText == CreateResponseWith(TextDataInputs)

CreateResponseNumbers == CreateResponseWith(NumberDataInputs)

\* definitions and submissions of the kinds that have no submission check
NextUnchecked == CreateFormUnchecked \/ CreateResponseText \/ CreateResponseNumbers

SpecUnchecked == Init /\ [][NextUnchecked]_vars

\* validation of a label request by each of the three label models
ValidateTransString ==
    \E raw \in TransStringInputs :
        /\ call' = [op |-> "validate_label", class |-> "trans_string.TransStringModel",
                    raw |-> raw]
        /\ ret' = TransStringModel(raw)
        /\ UNCHANGED <<opportunity_form, opportunity_form_response, validated_with, file,
                       writers, submitters, user_info, api_key, utc_now>>

ValidateEmbeddedTransString ==
    \E raw \in EmbeddedTransStringInputs :
        /\ call' = [op |-> "validate_label", class |-> "embedded.TransStringModel",
                    raw |-> raw @@ [fallback_language |-> None]]
        /\ ret' = embedded_TransStringModel(raw)
        /\ UNCHANGED <<opportunity_form, opportunity_form_response, validated_with, file,
                       writers, submitters, user_info, api_key, utc_now>>

ValidateContainedTransString ==
    \E raw \in ContainedTransStringInputs :
        /\ call' = [op |-> "validate_label", class |-> "embedded.ContainedTransStringModel",
                    raw |-> [raw EXCEPT !.fallback_language = Some(@)]]
        /\ ret' = embedded_ContainedTransStringModel(raw)
        /\ UNCHANGED <<opportunity_form, opportunity_form_response, validated_with, file,
                       writers, submitters, user_info, api_key, utc_now>>

NextLabel == ValidateTransString \/ ValidateEmbeddedTransString \/ ValidateContainedTransString

SpecLabel == Init /\ [][NextLabel]_vars

\* User.create, as far as the profile goes
UserCreate ==
    \E user \in Users :
        /\ \A info \in user_info : info.user # user
        /\ user_info' = user_info \cup {UserInfo(user)}
        /\ call' = [op |-> "user_create", user |-> user]
        /\ ret' = Returned("ok", "", <<>>)
        /\ UNCHANGED <<opportunity_form, opportunity_form_response, validated_with, file,
                       writers, submitters, api_key, utc_now>>

UserInfoUpdate ==
    \E self \in user_info, fields \in UpdateModels :
        /\ user_info' = (user_info \ {self}) \cup {UserInfo_update(self, fields)}
        /\ call' = [op |-> "user_info_update", user |-> self.user, fields |-> fields]
        /\ ret' = Returned("ok", "", <<>>)
        /\ UNCHANGED <<opportunity_form, opportunity_form_response, validated_with, file,
                       writers, submitters, api_key, utc_now>>

\* DateField.fill_input of a date field, with and without fill purpose
FillInput ==
    \E info \in user_info, model \in {DateBirthday, [DateBirthday EXCEPT !.fill = None]} :
        /\ call' = [op |-> "fill_input", user |-> info.user,
                    field |-> DateFieldModel_to_field(model, "d")]
        /\ ret' = DateField_fill_input(DateFieldModel_to_field(model, "d"), info.user, info)
        /\ UNCHANGED <<opportunity_form, opportunity_form_response, validated_with, file,
                       writers, submitters, user_info, api_key, utc_now>>

NextProfile == UserCreate \/ UserInfoUpdate \/ FillInput

SpecProfile == Init /\ [][NextProfile]_vars

\* the clock advances
Tick ==
    /\ utc_now < MaxTime
    /\ utc_now' = utc_now + 1
    /\ UNCHANGED <<opportunity_form, opportunity_form_response, validated_with, file,
                   writers, submitters, user_info, api_key, call, ret>>

\* PersonalAPIKey.generate; the call takes time, so the next reading of the
\* clock is a later one
PersonalGenerate ==
    \E user \in KeyUsers, ip \in IPv4Addresses, expiry \in Expiries :
        LET r == PersonalAPIKey_generate(api_key, user, ip, expiry, utc_now) IN
        /\ utc_now < MaxTime
        /\ call' = [op |-> "generate", user |-> user, ip |-> ip, expiry |-> expiry,
                    now |-> utc_now]
        /\ ret' = r.ret
        /\ api_key' = r.collection
        /\ utc_now' = utc_now + 1
        /\ UNCHANGED <<opportunity_form, opportunity_form_response, validated_with, file,
                       writers, submitters, user_info>>

\* APIKey.get of a full key of either prefix; `stored` records the documents
\* of the table that had that key when the call began
KeyGet ==
    \E prefix \in Prefixes, key \in Keys, allowed_categories \in AllowedCategories :
        LET r == APIKey_get(api_key, <<prefix, key>>, allowed_categories, utc_now) IN
        /\ call' = [op |-> "get", full_key |-> <<prefix, key>>,
                    allowed_categories |-> allowed_categories, now |-> utc_now,
                    stored |-> table_get(api_key, PREFIX_TO_TABLE(prefix).table, key)]
        /\ ret' = r.ret
        /\ api_key' = r.collection
        /\ UNCHANGED <<opportunity_form, opportunity_form_response, validated_with, file,
                       writers, submitters, user_info, utc_now>>

NextKeys == Tick \/ PersonalGenerate \/ KeyGet

SpecKeys == Init /\ [][NextKeys]_vars

TypeOK ==
    /\ \A d \in opportunity_form : d.opportunity \in Opportunities /\ d.version \in 1..MaxVersion
    /\ Len(opportunity_form_response) <= MaxResponses
    /\ Len(validated_with) = Len(opportunity_form_response)

----------------------------------------------------------------------------
(* Properties *)

\* the stored schema of a subject
stored(collection, opportunity) == CHOOSE d \in with_id(collection, opportunity) : TRUE

\* the field factory reports at least one error for the field map
has_field_errors(fields_model) ==
    \E i \in DOMAIN fields_model :
        Len(to_field(fields_model[i].val, fields_model[i].key).errors) # 0

\* the stored field map is the one the request asked for
fields_applied(doc, fields_model) ==
    /\ Len(doc.fields) = Len(fields_model)
    /\ \A i \in DOMAIN fields_model :
          /\ doc.fields[i].key = fields_model[i].key
          /\ doc.fields[i].val = to_field(fields_model[i].val, fields_model[i].key).field

submit_method_applied(doc, submit_method_model) ==
    IF submit_method_model = None
    THEN doc.submit_method = None
    ELSE doc.submit_method = Some([url |-> submit_method_model[1].url])

\* C1: a successful update that supplies fields and/or submit_method and does
\* not mention bump_version increases the stored version by exactly 1
\* (1 -> 2 -> 3 from a fresh schema).
C1_DefaultBumpIncrementsVersion ==
    [][ ( /\ call'.op = "update"
          /\ ret'.kind = "ok"
          /\ "bump_version" \notin call'.request.model_fields_set )
        => stored(opportunity_form', call'.opportunity).version
             = stored(opportunity_form, call'.opportunity).version + 1 ]_vars

\* C2: a successful update that supplies fields or submit_method together with
\* an explicit bump_version = false applies the changes and leaves the stored
\* version as it was.
C2_ExplicitNoBumpKeepsVersion ==
    [][ ( /\ call'.op = "update"
          /\ ret'.kind = "ok"
          /\ "bump_version" \in call'.request.model_fields_set
          /\ call'.request.bump_version = FALSE )
        => LET before == stored(opportunity_form, call'.opportunity)
               after == stored(opportunity_form', call'.opportunity)
           IN  /\ after.version = before.version
               /\ "fields" \in call'.request.model_fields_set
                    => fields_applied(after, call'.request.fields[1])
               /\ "submit_method" \in call'.request.model_fields_set
                    => submit_method_applied(after, call'.request.submit_method) ]_vars

\* C3: with updates that all take the default bump_version, a stored submission
\* whose form_version equals the live schema's version was validated against
\* exactly the live field map and submit method.
C3_SameVersionSameSchema ==
    \A i \in DOMAIN opportunity_form_response :
        \A live \in with_id(opportunity_form, opportunity_form_response[i].form) :
            opportunity_form_response[i].form_version = live.version
            => /\ live.fields = validated_with[i].fields
               /\ live.submit_method = validated_with[i].submit_method

\* C4: OpportunityForm.create is all-or-nothing: when the field factory
\* reports an error for some field request, create returns the errors and the
\* stored schemas are unchanged; otherwise exactly one schema is stored for the
\* subject, holding the requested fields.
C4_CreateAllOrNothing ==
    [][ ( /\ call'.op = "create"
          /\ ret'.kind # "validation_error" )
        => IF has_field_errors(call'.request.fields[1])
           THEN /\ ret'.kind = "errors"
                /\ Len(ret'.errors) > 0
                /\ opportunity_form' = opportunity_form
           ELSE /\ ret'.kind = "ok"
                /\ Cardinality(with_id(opportunity_form', call'.opportunity)) = 1
                /\ fields_applied(stored(opportunity_form', call'.opportunity),
                                  call'.request.fields[1]) ]_vars

\* a create whose field factory reported errors has run for a subject without a schema
C4_Witness ==
    /\ call.op = "create"
    /\ ret.kind = "errors"
    /\ with_id(opportunity_form, call.opportunity) = {}

\* C5: an update whose supplied fields fail definition validation returns the
\* errors and leaves the stored field map, submit method and version as they
\* were, also when the request supplies submit_method and bump_version.
C5_FailedUpdateChangesNothing ==
    [][ ( /\ call'.op = "update"
          /\ ret'.kind # "validation_error"
          /\ "fields" \in call'.request.model_fields_set
          /\ has_field_errors(call'.request.fields[1]) )
        => /\ ret'.kind = "errors"
           /\ Len(ret'.errors) > 0
           /\ opportunity_form' = opportunity_form ]_vars

\* a failing update that also carried submit_method and bump_version has run
C5_Witness ==
    /\ call.op = "update"
    /\ ret.kind = "errors"
    /\ {"fields", "submit_method", "bump_version"} \subseteq call.request.model_fields_set
    /\ call.request.submit_method # stored(opportunity_form, call.opportunity).submit_method

\* every answer is keyed by a field id and its check completes
validation_completes(form, data, user) ==
    \A i \in DOMAIN data :
        /\ dict_has(form.fields, data[i].key)
        /\ post_validate_input(dict_get(form.fields, data[i].key),
                               data[i].key, data[i].val, user).raise = ""

\* the answers whose check reports an error
failing_answers(form, data, user) ==
    {i \in DOMAIN data :
        Len(post_validate_input(dict_get(form.fields, data[i].key),
                                data[i].key, data[i].val, user).errors) # 0}

new_response(c, form) ==
    [user |-> c.user, form |-> form.opportunity, form_version |-> form.version,
     data |-> c.data, creation_time |-> c.now]

C7_RequiredAnswersPresent ==
    \A i \in DOMAIN opportunity_form_response :
        \A j \in DOMAIN validated_with[i].fields :
            validated_with[i].fields[j].val.is_required
            => dict_has(opportunity_form_response[i].data, validated_with[i].fields[j].key)

\* the answers that are keyed by a field id of the schema
known_answers(form, data) == SelectSeq(data, LAMBDA item : dict_has(form.fields, item.key))

\* C8: answer keys that are not field ids are ignored: the outcome of a
\* submission is the outcome of the same submission without those keys.
C8_UnknownKeysIgnored ==
    ( /\ call.op = "response_create"
      /\ \E i \in DOMAIN call.data :
            ~dict_has(stored(opportunity_form, call.opportunity).fields, call.data[i].key) )
    => LET form == stored(opportunity_form, call.opportunity) IN
       /\ ret.kind # "raise"
       /\ ret.kind = OpportunityFormResponse_create(
                         <<>>, call.user, form, known_answers(form, call.data),
                         call.now).ret.kind

\* C9: while a subject's schema exists its stored version never decreases, and
\* a create for a subject that already has a schema does not replace it.
C9_VersionNeverDecreases ==
    [][ \A before \in opportunity_form :
          \A after \in with_id(opportunity_form', before.opportunity) :
              /\ after.version >= before.version
              /\ call'.op = "create" => after = before ]_vars

\* C10: every stored schema has at least one field; a create or an update with
\* an empty field map and an update with fields = null are rejected by request
\* validation (the latter with null_fields) and leave storage unchanged.
C10_FieldsNeverEmpty ==
    [][ /\ \A d \in opportunity_form' : Len(d.fields) >= 1
        /\ ( /\ call'.op \in {"create", "update"}
             /\ call'.request.fields # None
             /\ Len(call'.request.fields[1]) = 0 )
           => /\ ret'.kind = "validation_error"
              /\ opportunity_form' = opportunity_form
        /\ ( /\ call'.op = "update"
             /\ "fields" \in call'.request.model_fields_set
             /\ call'.request.fields = None )
           => /\ ret'.kind = "validation_error"
              /\ ret'.code = "null_fields"
              /\ opportunity_form' = opportunity_form ]_vars

\* an update that sets fields to null has been rejected on a stored schema
C10_Witness ==
    /\ call.op = "update"
    /\ "fields" \in call.request.model_fields_set
    /\ call.request.fields = None
    /\ ret.code = "null_fields"
    /\ opportunity_form # {}

\* C11: every stored schema has version >= 1, and the schema stored by a
\* successful OpportunityForm.create has version exactly 1.
C11_VersionAtLeastOne ==
    /\ \A d \in opportunity_form : d.version >= 1
    /\ ( /\ call.op = "create"
         /\ ret.kind = "ok" )
       => stored(opportunity_form, call.opportunity).version = 1

\* a create has succeeded and its schema is stored
C11_Witness ==
    /\ call.op = "create"
    /\ ret.kind = "ok"
    /\ with_id(opportunity_form, call.opportunity) # {}
    /\ Len(stored(opportunity_form, call.opportunity).fields) = Len(call.request.fields[1])

\* C12: an update request that supplies nothing, or only bump_version (true or
\* false), is rejected with empty_update and the stored schemas, versions
\* included, are unchanged.
C12_EmptyUpdateRejected ==
    [][ ( /\ call'.op = "update"
          /\ call'.request.model_fields_set \subseteq {"bump_version"} )
        => /\ ret'.kind = "validation_error"
           /\ ret'.code = "empty_update"
           /\ opportunity_form' = opportunity_form ]_vars

\* an update supplying only bump_version = false has been rejected on a stored schema
C12_Witness ==
    /\ call.op = "update"
    /\ call.request.model_fields_set = {"bump_version"}
    /\ call.request.bump_version = FALSE
    /\ ret.code = "empty_update"
    /\ opportunity_form # {}

\* the pairs (field id, 0-based index) of the whitelist entries of a field map
\* that are not existing countries
unknown_whitelist_entries(fields_model) ==
    UNION { IF /\ fields_model[i].val.type = "phone_number"
               /\ fields_model[i].val.whitelist # None
            THEN LET whitelist == fields_model[i].val.whitelist[1] IN
                 { <<fields_model[i].key, index>> :
                     index \in {j \in 0..(Len(whitelist) - 1) : whitelist[j + 1] \notin country} }
            ELSE {} : i \in DOMAIN fields_model }

\* C13: definition-time whitelist errors are complete: the list returned by a
\* create or an update holds exactly one PHONE_NUMBER_INVALID_COUNTRY_ID error
\* per pair (field id, 0-based index) of a whitelist entry that is not an
\* existing country, over all fields of the request, and nothing else; when
\* there is such a pair nothing is stored.
C13_WhitelistErrorsComplete ==
    [][ ( /\ call'.op \in {"create", "update"}
          /\ ret'.kind # "validation_error"
          /\ "fields" \in call'.request.model_fields_set
          /\ call'.request.fields # None )
        => LET expected == unknown_whitelist_entries(call'.request.fields[1])
               errors == ret'.errors
           IN  /\ \A p \in expected :
                     Cardinality({k \in DOMAIN errors :
                         errors[k] = Error("PHONE_NUMBER_INVALID_COUNTRY_ID", p)}) = 1
               /\ Len(errors) = Cardinality(expected)
               /\ expected # {} => /\ ret'.kind = "errors"
                                   /\ opportunity_form' = opportunity_form ]_vars

\* an update with two failing phone number fields has returned the three
\* errors, among them index 1 for the whitelist with one unknown id of three
C13_Witness ==
    /\ call.op = "update"
    /\ ret.kind = "errors"
    /\ Len(ret.errors) = 3
    /\ \E k \in DOMAIN ret.errors :
          ret.errors[k] = Error("PHONE_NUMBER_INVALID_COUNTRY_ID", <<"b", 1>>)
    /\ \E k \in DOMAIN ret.errors :
          ret.errors[k] = Error("PHONE_NUMBER_INVALID_COUNTRY_ID", <<"a", 2>>)
    /\ opportunity_form # {}

\* C14: submission errors are aggregated over all answers: when the check of
\* at least one submitted answer fails, OpportunityFormResponse.create returns
\* an error list that holds, for every submitted field id whose answer fails,
\* an error tagged with that id, however many answers fail and in whatever
\* order they are examined.
C14_ErrorsAggregated ==
    [][ ( /\ call'.op = "response_create"
          /\ validation_completes(stored(opportunity_form, call'.opportunity), call'.data,
                                  call'.user) )
        => LET form == stored(opportunity_form, call'.opportunity)
               failing == failing_answers(form, call'.data, call'.user)
           IN  failing # {}
               => /\ ret'.kind = "errors"
                  /\ \A i \in failing :
                        \E k \in DOMAIN ret'.errors :
                            ret'.errors[k].context = call'.data[i].key ]_vars

\* a submission whose two answers both fail, the phone number examined first,
\* has returned an error for each
C14_Witness ==
    /\ call.op = "response_create"
    /\ ret.kind = "errors"
    /\ Len(call.data) = 2
    /\ call.data[1].key = "b"
    /\ Len(ret.errors) = 2
    /\ ret.errors[1].context = "b"
    /\ ret.errors[2].context = "a"

\* the answers to choice fields that are none of the declared keys: another
\* value, or no value for a required field
not_a_choice(form, data) ==
    {i \in DOMAIN data :
        /\ dict_has(form.fields, data[i].key)
        /\ LET field == dict_get(form.fields, data[i].key) IN
           /\ field.type = "choice"
           /\ \/ data[i].val = None /\ field.is_required
              \/ Len(data[i].val) = 1 /\ ~dict_has(field.choices, data[i].val[1])}

\* C15: for a choice field, an answer that is not one of the declared keys,
\* an absent answer to a required field included, makes the submission return
\* INVALID_CHOICE tagged with the field id, and no submission is stored.
C15_ChoiceRejectsNonKeys ==
    [][ ( /\ call'.op = "response_create"
          /\ validation_completes(stored(opportunity_form, call'.opportunity), call'.data,
                                  call'.user) )
        => LET form == stored(opportunity_form, call'.opportunity) IN
           \A i \in not_a_choice(form, call'.data) :
               /\ ret'.kind = "errors"
               /\ \E k \in DOMAIN ret'.errors :
                     ret'.errors[k] = Error("INVALID_CHOICE", call'.data[i].key)
               /\ opportunity_form_response' = opportunity_form_response ]_vars

\* the reference resolves to a file: a stored file that is not marked for
\* deletion (a marked file is considered deleted)
resolves(id) == \E f \in file : f.id = id /\ f.state = "ALIVE"

\* the user may read the file: it is public, or private and owned by the user
has_read_access(id, user) ==
    \E f \in file :
        /\ f.id = id
        /\ f.state = "ALIVE"
        /\ f.access_mode = "PUBLIC" \/ f.owner_id = Some(user)

size_of(id) == (CHOOSE f \in file : f.id = id).size_bytes

\* the errors of a list that are tagged with a field id
tagged(errors, id) == SelectSeq(errors, LAMBDA e : e.context = id)

\* the non-null answers to file fields of which `limited` says whether they
\* have a max_size_bytes
file_answers(form, data, limited) ==
    {i \in DOMAIN data :
        /\ dict_has(form.fields, data[i].key)
        /\ dict_get(form.fields, data[i].key).type = "file"
        /\ (dict_get(form.fields, data[i].key).max_size_bytes # None) = limited
        /\ Len(data[i].val) = 1}

\* C16: for a file field with max_size_bytes = m and a non-null answer the
\* submission returns exactly one outcome for the field, chosen in this order:
\* FILE_INVALID_ID if the reference does not resolve to a file, else
\* FILE_CANT_ACCESS if the user has no read access to it, else
\* FILE_EXCEEDS_SIZE if its size is greater than m, else no error.
C16_FileOutcomeInOrder ==
    [][ call'.op = "response_create"
        => LET form == stored(opportunity_form, call'.opportunity) IN
           \A i \in file_answers(form, call'.data, TRUE) :
               LET id == call'.data[i].key
                   input == call'.data[i].val[1]
                   m == dict_get(form.fields, id).max_size_bytes[1]
                   expected ==
                       IF ~resolves(input) THEN <<Error("FILE_INVALID_ID", id)>>
                       ELSE IF ~has_read_access(input, call'.user)
                       THEN <<Error("FILE_CANT_ACCESS", id)>>
                       ELSE IF size_of(input) > m THEN <<Error("FILE_EXCEEDS_SIZE", id)>>
                       ELSE <<>>
               IN  /\ ret'.kind \in {"ok", "errors"}
                   /\ tagged(ret'.errors, id) = expected ]_vars

\* C17: for a file field without max_size_bytes, a reference to an existing
\* file the user can access yields no error and no fault, whatever the size,
\* and the submission is stored.
C17_NoLimitAccepted ==
    [][ call'.op = "response_create"
        => LET form == stored(opportunity_form, call'.opportunity) IN
           ( /\ Len(call'.data) = 1
             /\ file_answers(form, call'.data, FALSE) = {1}
             /\ has_read_access(call'.data[1].val[1], call'.user) )
           => /\ ret'.kind = "ok"
              /\ opportunity_form_response'
                   = Append(opportunity_form_response, new_response(call', form)) ]_vars

\* the answers to phone number fields that carry a country id
phone_answers(form, data) ==
    {i \in DOMAIN data :
        /\ dict_has(form.fields, data[i].key)
        /\ dict_get(form.fields, data[i].key).type = "phone_number"
        /\ Len(data[i].val) = 2}

\* C18: for a phone number field the submission returns
\* PHONE_NUMBER_INVALID_COUNTRY_ID if the answer's country_id is not an
\* existing country, else PHONE_NUMBER_NON_WHITELIST_COUNTRY if the field's
\* whitelist is non-empty and the country is not in it, else no error; with
\* an absent or empty whitelist every existing country is accepted.
C18_PhoneOutcome ==
    [][ ( /\ call'.op = "response_create"
          /\ validation_completes(stored(opportunity_form, call'.opportunity), call'.data,
                                  call'.user) )
        => LET form == stored(opportunity_form, call'.opportunity) IN
           \A i \in phone_answers(form, call'.data) :
               LET id == call'.data[i].key
                   country_id == call'.data[i].val[1]
                   whitelist == dict_get(form.fields, id).whitelist
                   expected ==
                       IF country_id \notin country
                       THEN <<Error("PHONE_NUMBER_INVALID_COUNTRY_ID", id)>>
                       ELSE IF /\ whitelist # <<>>
                               /\ country_id \notin {whitelist[j] : j \in DOMAIN whitelist}
                       THEN <<Error("PHONE_NUMBER_NON_WHITELIST_COUNTRY", id)>>
                       ELSE <<>>
               IN  tagged(ret'.errors, id) = expected ]_vars

\* an existing country outside the field's whitelist has been refused
C18_Witness ==
    /\ call.op = "response_create"
    /\ ret.kind = "errors"
    /\ ret.errors = <<Error("PHONE_NUMBER_NON_WHITELIST_COUNTRY", "b")>>
    /\ \E i \in DOMAIN call.data : call.data[i].val = <<"c2", "555">>

\* C19: two update calls on one schema that both bump the version and both
\* succeed: when both read version v before either writes, the stored version
\* ends at v + 1; in every interleaving it ends at v + 1 or v + 2 (v being the
\* earlier version read) and the stored field map is the whole field map of
\* one of the two writers, never a mixture and never empty.
C19_LastWriterWins ==
    \A w1 \in Writers : \A w2 \in Writers \ {w1} :
        ( /\ writers[w1].pc = "done" /\ writers[w2].pc = "done"
          /\ writers[w1].ret.kind = "ok" /\ writers[w2].ret.kind = "ok"
          /\ "bump_version" \in writers[w1].request.model_fields_set
          /\ "bump_version" \in writers[w2].request.model_fields_set )
        => LET v1 == writers[w1].loaded[1].version
               v2 == writers[w2].loaded[1].version
               v == IF v1 <= v2 THEN v1 ELSE v2
               final == stored(opportunity_form, writers[w1].loaded[1].opportunity)
           IN  /\ final.version \in {v + 1, v + 2}
               /\ v1 = v2 => final.version = v + 1
               /\ final.fields \in {writers[w1].updated[1].fields,
                                    writers[w2].updated[1].fields}
               /\ Len(final.fields) > 0

\* both writers read the same version, both wrote a field map and reported
\* success; the version went up by one and the first writer's map is lost
C19_Witness ==
    \E w1 \in Writers : \E w2 \in Writers \ {w1} :
        /\ writers[w1].pc = "done" /\ writers[w2].pc = "done"
        /\ writers[w1].ret.kind = "ok" /\ writers[w2].ret.kind = "ok"
        /\ {"bump_version", "fields"} \subseteq writers[w1].request.model_fields_set
        /\ {"bump_version", "fields"} \subseteq writers[w2].request.model_fields_set
        /\ writers[w1].loaded[1].version = writers[w2].loaded[1].version
        /\ LET final == stored(opportunity_form, writers[w1].loaded[1].opportunity) IN
           /\ final.version = writers[w1].loaded[1].version + 1
           /\ final.fields = writers[w2].updated[1].fields
           /\ final.fields # writers[w1].updated[1].fields

\* C20: a stored submission is immutable: no operation, an update of the
\* schema and the creation of further submissions included, removes it or
\* changes its user, form_version, data or creation_time.
C20_StoredSubmissionImmutable ==
    [][ \A i \in DOMAIN opportunity_form_response :
          /\ i \in DOMAIN opportunity_form_response'
          /\ opportunity_form_response'[i].user = opportunity_form_response[i].user
          /\ opportunity_form_response'[i].form_version
               = opportunity_form_response[i].form_version
          /\ opportunity_form_response'[i].data = opportunity_form_response[i].data
          /\ opportunity_form_response'[i].creation_time
               = opportunity_form_response[i].creation_time ]_vars

\* a second submission was stored after a schema update, at another time than
\* the first, and the schema has been updated again since
C20_Witness ==
    /\ Len(opportunity_form_response) = 2
    /\ opportunity_form_response[1].form_version < opportunity_form_response[2].form_version
    /\ opportunity_form_response[1].creation_time # opportunity_form_response[2].creation_time
    /\ call.op = "update"
    /\ ret.kind = "ok"
    /\ stored(opportunity_form, call.opportunity).version
         > opportunity_form_response[2].form_version

\* C21: every field the factory produces from a valid creation request renders
\* in every language without failing, and the descriptor has the key 'label'
\* and a 'type' equal to the field's kind
C21_EveryKindRenders ==
    call.op = "field_to_dict" =>
        /\ ret.raise = ""
        /\ "label" \in DOMAIN ret.value
        /\ "type" \in DOMAIN ret.value
        /\ \E i \in 1..Len(stored(opportunity_form, call.opportunity).fields) :
               LET item == stored(opportunity_form, call.opportunity).fields[i] IN
               item.key = call.id /\ item.val.type = ret.value.type

\* the ids of a mapping, in order
ids(fields) == [i \in 1..Len(fields) |-> fields[i].key]

\* C22: after a successful create with field requests R, or a successful update
\* that supplies fields R, OpportunityForm.to_dict in any language returns a
\* mapping whose keys are exactly the ids of R, in the order of R
C22_RenderKeysRoundTrip ==
    (/\ call.op \in {"create", "update"}
     /\ ret.kind = "ok"
     /\ "fields" \in call.request.model_fields_set)
    => \A language \in Language :
           LET r == OpportunityForm_to_dict(stored(opportunity_form, call.opportunity),
                                            language) IN
           /\ r.raise = ""
           /\ ids(r.value) = ids(call.request.fields[1])

\* the integer field of a request that defines one under the id "n"
integer_model(request) == request.fields[1][1].val

\* C23: the definition of an integer field is rejected with invalid_bounds
\* exactly when both bounds are set and max < min; equal bounds, one bound and
\* no bound are accepted
C23_InvalidBoundsIff ==
    call.op \in {"create", "update"}
    => LET model == integer_model(call.request) IN
       /\ (ret.kind = "validation_error" /\ ret.code = "invalid_bounds")
           <=> (model.min # None /\ model.max # None /\ model.max[1] < model.min[1])
       /\ ret.kind \in {"validation_error", "ok"}
       /\ ret.kind = "ok" =>
              /\ stored(opportunity_form, call.opportunity).fields[1].val.min = model.min
              /\ stored(opportunity_form, call.opportunity).fields[1].val.max = model.max

C23_Witness ==
    /\ call.op = "update"
    /\ integer_model(call.request).min = Some(18)
    /\ integer_model(call.request).max = Some(17)
    /\ ret.kind = "validation_error"
    /\ ret.code = "invalid_bounds"

\* C24: bounds and lengths are not enforced on answers: the check of an answer
\* to a string, regex, text, email, gender, checkbox, integer or date field
\* returns no error whatever the answer, and the submission is stored; so is
\* the answer 17 to an integer field with min = 18. (No gender field can be
\* stored, so its check is applied to a field value.)
C24_NoSubmissionCheck ==
    [][ (/\ call'.op = "response_create"
         /\ \A i \in DOMAIN call'.data :
                dict_has(stored(opportunity_form, call'.opportunity).fields,
                         call'.data[i].key))
        => /\ \A input \in {None, <<"xy">>} :
                 post_validate_input(FormField("gender", Label, TRUE), "a", input, call'.user)
                   = NoError
           /\ ret'.kind = "ok"
           /\ opportunity_form_response'
                = Append(opportunity_form_response,
                         new_response(call', stored(opportunity_form, call'.opportunity)))
      ]_vars

\* the answer 17 to an integer field with min = 18 has been stored
C24_Witness ==
    /\ call.op = "response_create"
    /\ ret.kind = "ok"
    /\ dict_has(stored(opportunity_form, call.opportunity).fields, "n")
    /\ dict_get(stored(opportunity_form, call.opportunity).fields, "n").min = Some(18)
    /\ call.data = <<Item("n", <<17>>)>>
    /\ opportunity_form_response[Len(opportunity_form_response)].data = call.data

\* C25: the validation of a label request fails if and only if every language
\* slot is empty, or a fallback language is declared and its slot is empty
C25_LabelRejectedIff ==
    call.op = "validate_label"
    => LET raw == call.raw IN
       (ret.kind # "ok")
       <=> \/ raw.en = None /\ raw.ru = None
           \/ /\ raw.fallback_language # None
              /\ (IF raw.fallback_language[1] = "en" THEN raw.en ELSE raw.ru) = None

\* C26: a file marked for deletion stays deleted: can_access answers false for
\* every accessor, the owner and a PUBLIC file included; a submission that
\* references it gets FILE_INVALID_ID and no other file error; and no operation
\* makes the file ALIVE again
C26_MarkedFileStaysDeleted ==
    [][ \A f \in file :
          f.state = "MARKED_FOR_DELETION"
          => /\ \A accessor_id \in {"u1", "u2"} :
                   File_can_access(f, accessor_id) = [raise |-> "", value |-> FALSE]
             /\ \E g \in file' : g.id = f.id
             /\ \A g \in file' : g.id = f.id => g.state = "MARKED_FOR_DELETION"
             /\ (/\ call'.op = "response_create"
                 /\ call'.data = <<Item("f", <<f.id>>)>>)
                => /\ ret'.kind = "errors"
                   /\ ret'.errors = <<Error("FILE_INVALID_ID", "f")>>
                   /\ opportunity_form_response' = opportunity_form_response ]_vars

\* the owner of a PUBLIC file that fits the size limit referenced it after it
\* was marked for deletion, and was answered FILE_INVALID_ID
C26_Witness ==
    /\ call.op = "response_create"
    /\ call.user = "u1"
    /\ call.data = <<Item("f", <<"f1">>)>>
    /\ \E f \in file :
          /\ f.id = "f1"
          /\ f.state = "MARKED_FOR_DELETION"
          /\ f.access_mode = "PUBLIC"
          /\ f.owner_id = Some("u1")
          /\ f.size_bytes = 1
    /\ dict_get(stored(opportunity_form, call.opportunity).fields, "f").max_size_bytes = Some(2)
    /\ ret.errors = <<Error("FILE_INVALID_ID", "f")>>

\* the profile of a user
profile(collection, user) == CHOOSE info \in collection : info.user = user

\* C27: after UserInfo.update with birthday = d a date field with fill purpose
\* BIRTHDAY autofills (true, d); with a birthday never set it autofills
\* (false, none); an update that does not mention the birthday leaves it as
\* it was
C27_BirthdayRoundTrip ==
    [][ /\ call'.op = "user_create"
           => DateField_fill_input(DateFieldModel_to_field(DateBirthday, "d"), call'.user,
                                   profile(user_info', call'.user))
                = [present |-> FALSE, value |-> None]
        /\ call'.op = "user_info_update"
           => LET fields == call'.fields
                  before == profile(user_info, call'.user)
                  after == profile(user_info', call'.user)
              IN  /\ ("birthday" \in fields.model_fields_set /\ fields.birthday # None)
                     => DateField_fill_input(DateFieldModel_to_field(DateBirthday, "d"),
                                             call'.user, after)
                          = [present |-> TRUE, value |-> fields.birthday]
                  /\ "birthday" \notin fields.model_fields_set
                     => after.birthday = before.birthday ]_vars

\* C28: under every interleaving of schema updates and submissions the version
\* stamp and the field map a submission is validated against come from one
\* read of the schema, and no stored submission has a form_version greater
\* than the current version of its schema
C28_StampFromOneRead ==
    [][ /\ \A s \in Submitters :
             /\ (submitters[s].pc = "idle" /\ submitters'[s].pc = "loaded")
                => submitters'[s].form[1] \in opportunity_form
             /\ (submitters[s].pc = "loaded" /\ submitters'[s].response # 0)
                => LET i == submitters'[s].response IN
                   /\ opportunity_form_response'[i].form_version
                        = submitters[s].form[1].version
                   /\ validated_with'[i].fields = submitters[s].form[1].fields
                   /\ validation_loop(submitters[s].form[1], opportunity_form_response'[i].data,
                                      opportunity_form_response'[i].user, 1, <<>>)
                        = NoError
        /\ \A i \in DOMAIN opportunity_form_response' :
             \A d \in opportunity_form' :
                 d.opportunity = opportunity_form_response'[i].form
                 => opportunity_form_response'[i].form_version <= d.version ]_vars

\* C29: APIKey.get returns a key only while its expiry is after the clock's
\* reading; the lookup of a stored key that has expired deletes it and answers
\* INVALID_KEY, and a key that is gone stays gone, so later lookups answer
\* INVALID_KEY too; when the category of the key is not among the non-empty
\* allowed_categories the answer is INVALID_CATEGORY and nothing is returned
\* or deleted
C29_ExpiredKeyNeverReturned ==
    [][ /\ (call'.op = "get" /\ call'.now = utc_now /\ utc_now' = utc_now)
           => LET entry == PREFIX_TO_TABLE(call'.full_key[1])
                  found == table_get(api_key, entry.table, call'.full_key[2]) IN
              IF call'.allowed_categories # {}
                 /\ entry.category \notin call'.allowed_categories
              THEN /\ ret'.code = "INVALID_CATEGORY"
                   /\ api_key' = api_key
              ELSE /\ ret'.kind = "ok"
                      => /\ ret'.errors[1] \in found
                         /\ ret'.errors[1].expiry > call'.now
                         /\ api_key' = api_key
                   /\ (\E d \in found : d.expiry <= call'.now)
                      => /\ ret'.code = "INVALID_KEY"
                         /\ table_get(api_key', entry.table, call'.full_key[2]) = {}
                   /\ found = {} => ret'.code = "INVALID_KEY" /\ api_key' = api_key
        /\ \A key \in Keys :
             (key[1] < utc_now /\ table_get(api_key, "PersonalAPIKey", key) = {})
             => table_get(api_key', "PersonalAPIKey", key) = {} ]_vars

\* a stored key was looked up at the instant of its expiry, with its category
\* allowed: it was refused and is no longer stored
C29_Witness ==
    /\ call.op = "get"
    /\ call.allowed_categories = {"PERSONAL"}
    /\ call.full_key[1] = "usr"
    /\ \E d \in call.stored : d.expiry = call.now
    /\ ret.code = "INVALID_KEY"
    /\ table_get(api_key, "PersonalAPIKey", call.full_key[2]) = {}

\* the personal keys stored for a user and an address
keys_of(collection, user_id, ip) ==
    {d \in collection : d.cls = "PersonalAPIKey" /\ d.user = user_id /\ d.ip = ip}

\* C30: there is at most one stored personal key per (user, ip); a generate
\* call for a pair that has a key removes that key, which APIKey.get no longer
\* resolves, stores a new one, and leaves the keys of the other pairs as they
\* are
C30_OneKeyPerUserAndAddress ==
    [][ /\ \A user \in KeyUsers, ip \in IPv4Addresses :
             Cardinality(keys_of(api_key', user.id, ip)) <= 1
        /\ (call'.op = "generate" /\ call'.now = utc_now /\ ret'.kind = "ok")
           => LET user_id == call'.user.id
                  previous == keys_of(api_key, user_id, call'.ip) IN
              /\ keys_of(api_key', user_id, call'.ip) = {ret'.errors[1]}
              /\ \A d \in previous :
                    /\ d \notin api_key'
                    /\ \A t \in 1..MaxTime, allowed_categories \in AllowedCategories :
                          APIKey_get(api_key', <<"usr", d.key>>, allowed_categories, t).ret.kind
                            # "ok"
              /\ api_key' \ keys_of(api_key', user_id, call'.ip)
                   = api_key \ previous ]_vars

\* a key was generated for a pair that had one, while the other address of the
\* user keeps its key
C30_Witness ==
    /\ call.op = "generate"
    /\ ret.kind = "ok"
    /\ call.now > 2
    /\ Cardinality(api_key) = 2
    /\ \E d \in api_key : d.ip = call.ip /\ d.key = generate_key(call.now, "u1" \o call.ip)
    /\ \E d \in api_key : d.ip # call.ip /\ d.key[1] = 1

============================================================================
